---- MODULE Spec2Model ----
(***************************************************************************)
(* PyBal BGP speaker (pybal/bgp/bgp.py): the FSM, the BGP protocol         *)
(* (connection) and the BGPPeering manager, as a state machine.            *)
(*                                                                         *)
(* Every reactor callback (a user call, a connection event, one received   *)
(* message, one timer expiry) is one atomic action.  The methods of the    *)
(* source are operators from a program state record to a program state     *)
(* record; the field exc carries a raised Python exception to the place    *)
(* that catches it.                                                        *)
(***************************************************************************)
EXTENDS Integers, Sequences, FiniteSets, TLC

\* ---------------------------------------------------------------- bounds
\* protocol (connection) objects created in one behaviour
MaxConn == 2
\* the same, in the behaviours that only make and lose connections
MaxAccept == 3
\* outbound TCP connection attempts in flight at one time
MaxPending == 1
\* messages of one received chunk still parsed after the connection closed
MaxLeftover == 1
\* consumers registered with the peering
MaxConsumers == 2
\* prefixes the user advertises, all with the same attributes
MaxPrefix == 2
\* IPv6 prefixes the user advertises
MaxPrefix6 == 1

\* prefixes handed to the packing of one UPDATE
MaxPackPrefix == 3
\* prefixes one UPDATE under construction takes in
MaxEncoded == 3
\* addAttributes calls on one UPDATE under construction
MaxAttrCalls == 2
\* ------------------------------------------------------------- constants
ST_IDLE == "Idle"
ST_CONNECT == "Connect"
ST_ACTIVE == "Active"
ST_OPENSENT == "OpenSent"
ST_OPENCONFIRM == "OpenConfirm"
ST_ESTABLISHED == "Established"
States == {ST_IDLE, ST_CONNECT, ST_ACTIVE, ST_OPENSENT, ST_OPENCONFIRM, ST_ESTABLISHED}

VERSION == 4
PORT == 179
ERR_MSG_HDR == 1
ERR_MSG_OPEN == 2
ERR_MSG_UPDATE == 3
ERR_HOLD_TIMER_EXPIRED == 4
ERR_FSM == 5
ERR_CEASE == 6
ERR_MSG_HDR_CONN_NOT_SYNC == 1
ERR_MSG_HDR_BAD_MSG_LEN == 2
ERR_MSG_HDR_BAD_MSG_TYPE == 3
ERR_MSG_OPEN_UNSUP_VERSION == 1
ERR_MSG_OPEN_BAD_PEER_AS == 2
ERR_MSG_OPEN_BAD_BGP_ID == 3
ERR_MSG_OPEN_UNACCPT_HOLD_TIME == 6
ERR_MSG_UPDATE_MALFORMED_ATTR_LIST == 1
AFI_INET == 1
AFI_INET6 == 2
SAFI_UNICAST == 1
\* FSM.__init__ defaults
HDR_LEN == 19
MAX_LEN == 4096
MSG_OPEN == 1
MSG_UPDATE == 2
MSG_NOTIFICATION == 3
MSG_KEEPALIVE == 4

DefaultHoldTime == 180
largeHoldTime == 240
allowAutomaticStart == TRUE

\* ------------------------------------------------------------ input sets
\* BGP identifier of the local speaker, and those a peer may announce
LocalIds == {2}
PeerIds == {1, 3}
\* hold times a peer may announce in its OPEN
PeerHoldTimes == {0, 180}
\* source ports an inbound connection may come from
InboundPorts == {1024}
\* configured value of the DelayOpen attribute of the peering's first FSM
DelayOpenChoices == {FALSE, TRUE}

MaxProto == IF MaxConn < MaxAccept THEN MaxAccept ELSE MaxConn
Protos == 1..MaxProto
MaxFSM == MaxProto + 1
FSMs == 1..MaxFSM
Prefixes == 1..MaxPrefix
\* the IPv6 unicast prefixes the user advertises
Prefixes6 == (MaxPrefix + 1)..(MaxPrefix + MaxPrefix6)
\* address families, (AFI, SAFI): the families the user may enable, and the
\* orders a loop over a set of them may take
INET == <<AFI_INET, SAFI_UNICAST>>
INET6 == <<AFI_INET6, SAFI_UNICAST>>
Families == {INET, INET6}
Orders == {<<INET, INET6>>, <<INET6, INET>>}
\* Advertisement.addressfamily, an advertisement given by its prefix
addressfamily(ad) == IF ad \in Prefixes THEN INET ELSE INET6
\* prefixes given to the packing of an UPDATE
PackPrefixes == 1..MaxPackPrefix
\* attribute sets by the number of bytes BGP.encodeAttributes makes of them:
\* a usual one, and those that leave 9, 4 and 0 bytes of an empty UPDATE or
\* do not go into it
AttributeSets == [len : {7, MAX_LEN - 32, MAX_LEN - 27, MAX_LEN - 23, MAX_LEN - 22}]
NoAttributes == [len |-> 0]
TimerNames == {"connectRetry", "hold", "keepAlive", "delayOpen", "idleHold"}

VARIABLES
    fsm,            \* FSM objects: [FSMs -> record]
    nfsm,           \* number of FSM objects constructed
    proto,          \* BGP protocol objects: [Protos -> record]
    nproto,         \* number of BGP protocol objects constructed
    limit,          \* number of BGP protocol objects this behaviour may construct
    pfsm,           \* BGPPeering.fsm (an FSM object)
    bgpId,          \* BGPPeering.bgpId
    peerId,         \* BGPPeering.peerId (0: None)
    inConnections,  \* BGPPeering.inConnections
    outConnections, \* BGPPeering.outConnections
    estabProtocol,  \* BGPPeering.estabProtocol (0: None)
    pending,        \* reactor.connectTCP attempts not yet answered
    reading,        \* <<p, n>>: dataReceived of the closed protocol p goes on, n
                    \* messages parsed since the close (<<0, 0>>: none)
    replay,         \* how much of Script the behaviour has replayed, so far
    ev,             \* the callback that ran last, its FSM before and after it,
                    \* and the FSMs it called _errorClose on
    out,            \* what the last callback wrote, closed and called, in order
    sent,           \* the messages the peer sends on the first connection
    heard,          \* how many bytes of them dataReceived was given, so far
    receiveBuffer,  \* BGP.receiveBuffer of the first connection
    dispatched,     \* the messages parseBuffer handed to their handlers, in order
    consumers,      \* BGPPeering.consumers (a set), in the order a loop over it
                    \* takes; the n-th consumer to be registered is n
    addressFamilies,\* BGPPeering.addressFamilies
    afOrder,        \* the order a loop over a set of address families takes
    advertised,     \* NaiveBGPPeering.advertised, a dict: address family to set
    toAdvertise,    \* NaiveBGPPeering.toAdvertise, a dict
    announced,      \* per connection, the prefixes the UPDATEs written on it
                    \* announced and did not withdraw later
    bgpupdate,      \* a BGPUpdateMessage under construction
    remaining,      \* the set of prefixes given to the last call, as it left it
    call,           \* the last call on bgpupdate, or of _sendInetUnicastUpdates
    stopped         \* "stopped": manualStop returned and the user has not started
                    \* the peering since; "started" otherwise ("off": not recorded)

vars == <<fsm, nfsm, proto, nproto, limit, pfsm, bgpId, peerId, inConnections,
          outConnections, estabProtocol, pending, reading, replay, ev, out,
          sent, heard, receiveBuffer, dispatched, consumers,
          addressFamilies, afOrder, advertised, toAdvertise, announced,
          bgpupdate, remaining, call, stopped>>

\* the variables of the peering and its connections
peeringVars == <<fsm, nfsm, proto, nproto, limit, pfsm, bgpId, peerId,
                 inConnections, outConnections, estabProtocol, pending, reading,
                 replay, ev, out, sent, heard, receiveBuffer, dispatched,
                 consumers, addressFamilies, afOrder, advertised, toAdvertise,
                 announced, stopped>>

\* ------------------------------------------------------------ FSM object
NoTimers == [t \in TimerNames |-> FALSE]

\* FSM.__init__
NewFSM(d) ==
    [state |-> ST_IDLE, protocol |-> 0, connectRetryCounter |-> 0,
     holdTime |-> DefaultHoldTime, keepAliveTime |-> DefaultHoldTime \div 3,
     delayOpen |-> d, tmr |-> NoTimers]

\* BGP.__init__ (transport: "none" before makeConnection)
NewProto ==
    [fsm |-> 0, port |-> 0, peerId |-> 0, deferred |-> "pending",
     callbacks |-> "none", disconnected |-> FALSE, transport |-> "none"]

\* The program state as the variables hold it.
Heap ==
    [fsm |-> fsm, nfsm |-> nfsm, proto |-> proto, nproto |-> nproto,
     pfsm |-> pfsm, bgpId |-> bgpId, peerId |-> peerId,
     inConnections |-> inConnections, outConnections |-> outConnections,
     estabProtocol |-> estabProtocol, pending |-> pending,
     consumers |-> consumers, addressFamilies |-> addressFamilies,
     afOrder |-> afOrder, advertised |-> advertised,
     toAdvertise |-> toAdvertise, announced |-> announced,
     out |-> <<>>, closes |-> <<>>, exc |-> "none"]

\* An FSM that cannot call back its protocol's deferred before another
\* protocol takes it over: from Idle, Connect and Active only connectionMade
\* (of a new protocol) and the DelayOpenTimer lead on to OpenSent.
FSMParked(s, f) ==
    /\ s.fsm[f].state \in {ST_IDLE, ST_CONNECT, ST_ACTIVE}
    /\ ~s.fsm[f].tmr.delayOpen

\* A protocol that gets no more data: it was closed (or lost), its
\* dataReceived is not running, the peering holds it nowhere.  All that is
\* still read of it is its transport and its peer port.
ProtoQuiet(s, p, r) ==
    /\ s.proto[p].transport \in {"closing", "lost"}
    /\ s.proto[p].transport = "closing" => s.proto[p].disconnected
    /\ r[1] # p
    /\ \A i \in 1..Len(s.inConnections) : s.inConnections[i] # p
    /\ \A i \in 1..Len(s.outConnections) : s.outConnections[i] # p
    /\ s.estabProtocol # p
    /\ \A f \in 1..s.nfsm : s.fsm[f].protocol = p => FSMParked(s, f)

\* An FSM that stays in Idle for good: it is not the peering's FSM (the only
\* one manualStart, automaticStart and _initProtocol take out of Idle) and no
\* protocol that still gets data drives it.  Of its timers only the
\* IdleHoldTimer still does something when it expires.
FSMDead(s, f, r) ==
    /\ f # s.pfsm
    /\ s.fsm[f].state = ST_IDLE
    /\ \A p \in 1..s.nproto : s.proto[p].fsm = f => ProtoQuiet(s, p, r)

\* What the program can no longer read is forgotten when a callback returns
\* (ev keeps the FSM of the callback as the code left it).
Collect(s, r) ==
    [s EXCEPT
       !.fsm = [f \in FSMs |->
                  IF f <= s.nfsm /\ FSMDead(s, f, r)
                  THEN [NewFSM(FALSE) EXCEPT !.tmr.idleHold = s.fsm[f].tmr.idleHold]
                  ELSE s.fsm[f]],
       !.proto = [p \in Protos |->
                  IF p <= s.nproto /\ ProtoQuiet(s, p, r)
                  THEN [NewProto EXCEPT !.port = s.proto[p].port,
                                        !.transport = s.proto[p].transport,
                                        !.disconnected = s.proto[p].disconnected,
                                        !.deferred = "called"]
                  ELSE s.proto[p]]]

\* The program state the callbacks work on.
Cur == Heap

\* All the protocol objects were made and none of them gets data any more:
\* what follows is the peering trying connections that the bound refuses.
\* The behaviour ends here.
Spent == nproto = limit /\ \A p \in 1..nproto : ProtoQuiet(Heap, p, reading)

\* raise e / an except clause caught the exception
Raise(s, e) == [s EXCEPT !.exc = e]
Caught(s) == [s EXCEPT !.exc = "none"]
Ok(s) == s.exc = "none"
\* s, then the statements K: they run unless an exception is on its way
Then(s, K(_)) == IF s.exc = "none" THEN K(s) ELSE s
\* s, then the statements K
Do(s, K(_)) == K(s)
\* except NotificationSent: pass
PassOver(s) == IF s.exc = "NotificationSent" THEN Caught(s) ELSE s
Emit(s, o) == [s EXCEPT !.out = Append(@, o)]

\* BGPTimer.reset / BGPTimer.cancel / BGPTimer.active
TimerReset(s, f, t) == [s EXCEPT !.fsm[f].tmr[t] = TRUE]
TimerCancel(s, f, t) == [s EXCEPT !.fsm[f].tmr[t] = FALSE]
TimerActive(s, f, t) == s.fsm[f].tmr[t]

RECURSIVE Remove(_, _)
\* list.remove(x): the first occurrence; ValueError is passed over by the caller
Remove(l, x) ==
    IF l = <<>> THEN <<>>
    ELSE IF Head(l) = x THEN Tail(l) ELSE <<Head(l)>> \o Remove(Tail(l), x)

InSeq(l, x) == \E i \in 1..Len(l) : l[i] = x

\* --------------------------------------------------------- transport, BGP
\* something written, closed or called: data is the Data field of a
\* NOTIFICATION, as a sequence of octets
OutData(what, p, a, b, data) == [what |-> what, p |-> p, a |-> a, b |-> b, data |-> data]
Out(what, p, a, b) == OutData(what, p, a, b, <<>>)

\* transport.write: Twisted drops what is written once the connection is lost
Write(s, p, what, a, b) ==
    IF s.proto[p].transport = "lost" THEN s ELSE Emit(s, Out(what, p, a, b))

\* BGP.sendNotification; called as self.protocol.sendNotification by the FSM,
\* whose protocol is None (0) until _initProtocol hands the FSM over
sendNotification(s, p, error, suberror) ==
    IF p = 0 THEN Raise(s, "AttributeError")
    ELSE Write(s, p, "NOTIFICATION", error, suberror)

\* BGP.sendNotification with a Data field
sendNotificationData(s, p, error, suberror, data) ==
    IF p = 0 THEN Raise(s, "AttributeError")
    ELSE IF s.proto[p].transport = "lost" THEN s
    ELSE Emit(s, OutData("NOTIFICATION", p, error, suberror, data))

\* BGP.sendOpen with BGP.constructOpen: the Hold Time field is fsm.holdTime
sendOpen(s, p) ==
    IF p = 0 THEN Raise(s, "AttributeError")
    ELSE Write(s, p, "OPEN", s.fsm[s.proto[p].fsm].holdTime, 0)

\* BGP.sendKeepAlive
sendKeepAlive(s, p) ==
    IF p = 0 THEN Raise(s, "AttributeError")
    ELSE Write(s, p, "KEEPALIVE", 0, 0)

\* BGP.isOutgoing
isOutgoing(s, p) == s.proto[p].port = PORT

\* BGP.closeConnection: transport.connected holds until connectionLost
closeConnection(s, p) ==
    IF s.proto[p].transport # "lost"
    THEN LET s1 == IF s.proto[p].transport = "open"
                   THEN Emit(s, Out("close", p, 0, 0)) ELSE s
         IN [s1 EXCEPT !.proto[p].transport = "closing",
                       !.proto[p].disconnected = TRUE]
    ELSE s

\* ------------------------------------------------- starting, closing down
\* FSM.automaticStart: the state it leaves
FSM_automaticStart(s, f, idleHold) ==
    IF s.fsm[f].state = ST_IDLE
    THEN IF idleHold
         THEN TimerReset(s, f, "idleHold")
         ELSE TimerReset([s EXCEPT !.fsm[f].connectRetryCounter = 0],
                         f, "connectRetry")
    ELSE s

\* FSM.automaticStart: the value it returns (None counts as False)
FSM_automaticStart_result(s, f, idleHold) ==
    s.fsm[f].state = ST_IDLE /\ ~idleHold

\* BGPPeering.connect
connect(s) ==
    IF s.fsm[s.pfsm].state # ST_ESTABLISHED
    THEN Emit([s EXCEPT !.pending = @ + 1], Out("connectTCP", 0, 0, 0))
    ELSE s

\* BGPPeering.automaticStart
BGPPeering_automaticStart(s, idleHold) ==
    IF s.fsm[s.pfsm].state = ST_IDLE
    THEN IF FSM_automaticStart_result(s, s.pfsm, idleHold)
         THEN [connect(FSM_automaticStart(s, s.pfsm, idleHold))
                  EXCEPT !.fsm[s.pfsm].state = ST_CONNECT]
         ELSE FSM_automaticStart(s, s.pfsm, idleHold)
    ELSE s

\* BGPPeering.connectionClosed, the protocol taken off the peering's books
\* (protocol 0: None)
RemoveConnection(s, p) ==
    IF p = 0 THEN s
    ELSE [s EXCEPT !.outConnections = IF isOutgoing(s, p) THEN Remove(@, p) ELSE @,
                   !.inConnections = IF isOutgoing(s, p) THEN @ ELSE Remove(@, p),
                   !.estabProtocol = IF @ = p THEN 0 ELSE @]

\* BGPPeering.connectionClosed
connectionClosed(s, p) ==
    IF allowAutomaticStart
    THEN BGPPeering_automaticStart(RemoveConnection(s, p), TRUE)
    ELSE RemoveConnection(s, p)

\* FSM._closeConnection
FSM__closeConnection(s, f) ==
    connectionClosed(IF s.fsm[f].protocol # 0
                     THEN closeConnection(s, s.fsm[f].protocol) ELSE s,
                     s.fsm[f].protocol)

\* The four timers _errorClose cancels (the IdleHoldTimer is not among them)
ErrorCloseTimers == {"connectRetry", "delayOpen", "hold", "keepAlive"}

CancelTimers(s, f, ts) ==
    [s EXCEPT !.fsm[f].tmr =
        [connectRetry |-> "connectRetry" \notin ts /\ s.fsm[f].tmr.connectRetry,
         hold |-> "hold" \notin ts /\ s.fsm[f].tmr.hold,
         keepAlive |-> "keepAlive" \notin ts /\ s.fsm[f].tmr.keepAlive,
         delayOpen |-> "delayOpen" \notin ts /\ s.fsm[f].tmr.delayOpen,
         idleHold |-> "idleHold" \notin ts /\ s.fsm[f].tmr.idleHold]]

\* The FSM f as _errorClose leaves it, for the properties: the state it was
\* called in and the counter it found, the FSM record and the transport of
\* its protocol ("none": the FSM has no protocol) as it returns
Closed(s, f, s1) ==
    [f |-> f, from |-> s.fsm[f].state, counter |-> s.fsm[f].connectRetryCounter,
     fsm |-> s1.fsm[f],
     transport |-> IF s1.fsm[f].protocol = 0 THEN "none"
                   ELSE s1.proto[s1.fsm[f].protocol].transport]

\* FSM._errorClose
FSM__errorClose(s, f) ==
    Do([FSM__closeConnection(CancelTimers(s, f, ErrorCloseTimers), f)
           EXCEPT !.fsm[f].connectRetryCounter = @ + 1,
                  !.fsm[f].state = ST_IDLE],
       LAMBDA s1 : [s1 EXCEPT !.closes = Append(@, Closed(s, f, s1))])

\* FSM.openCollisionDump with the _errorClose() forgotten: Cease is sent, the
\* connection and the state stay as they are
FSM_openCollisionDump_noClose(s, f) ==
    IF s.fsm[f].state = ST_IDLE THEN s
    ELSE Then(IF s.fsm[f].state \in {ST_OPENSENT, ST_OPENCONFIRM, ST_ESTABLISHED}
              THEN sendNotification(s, s.fsm[f].protocol, ERR_CEASE, 0)
              ELSE s,
              LAMBDA s1 : Raise(s1, "NotificationSent"))

\* FSM.openCollisionDump (event 23); exc = "NotificationSent" when it raises
FSM_openCollisionDump(s, f) ==
    IF s.fsm[f].state = ST_IDLE THEN s
    ELSE Then(IF s.fsm[f].state \in {ST_OPENSENT, ST_OPENCONFIRM, ST_ESTABLISHED}
              THEN sendNotification(s, s.fsm[f].protocol, ERR_CEASE, 0)
              ELSE s,
              LAMBDA s1 : Raise(FSM__errorClose(s1, f), "NotificationSent"))

\* ------------------------------------------------------- BGPUpdateMessage
\* len(prefix), the prefix length in bits: the prefixes are /24, /32 and /8
\* in turn
PrefixLen(x) == IF x % 3 = 1 THEN 24 ELSE IF x % 3 = 2 THEN 32 ELSE 8

\* octetLen of encodeSomePrefixes
octetLen(x) == (PrefixLen(x) \div 8) + (IF PrefixLen(x) % 8 > 0 THEN 1 ELSE 0)

RECURSIVE Size(_)
\* bytes of a block of encoded prefixes
Size(block) == IF block = <<>> THEN 0 ELSE octetLen(Head(block)) + 1 + Size(Tail(block))

\* the prefixes encoded in a block
Block(b) == {b[i] : i \in 1..Len(b)}

\* BGP.encodeAttributes: the bytes of an attribute set, by their number
encodeAttributes(attributes) == attributes.len

RECURSIVE Bytes(_)
\* bytes of the attribute sets put into msg[2]
Bytes(sets) ==
    IF sets = <<>> THEN 0 ELSE encodeAttributes(Head(sets)) + Bytes(Tail(sets))

\* BGPUpdateMessage.__init__: BGPMessage.__init__ packs the header while
\* self.msg is the header alone, then the three empty blocks are added.
\* hdr is the length field of the header, wlen and alen are the length
\* fields of msg[1] and msg[2], w, a and n what follows them in msg[1],
\* msg[2] and msg[3].
BGPUpdateMessage ==
    [hdr |-> HDR_LEN, wlen |-> 0, w |-> <<>>, alen |-> 0, a |-> <<>>, n |-> <<>>]

\* BGPMessage.__len__
MsgLen(m) == HDR_LEN + (2 + Size(m.w)) + (2 + Bytes(m.a)) + Size(m.n)

\* BGPMessage.freeSpace
freeSpace(m) == MAX_LEN - MsgLen(m)

\* BGPMessage._updateMsgLen
_updateMsgLen(m) == [m EXCEPT !.hdr = MsgLen(m)]

RECURSIVE encodeSomePrefixes_drop(_, _)
\* encodeSomePrefixes without 'prefixSet.add(prefix)'
encodeSomePrefixes_drop(prefixSet, maxLen) ==
    IF prefixSet = {} THEN {[added |-> <<>>, rest |-> {}]}
    ELSE UNION {IF maxLen >= octetLen(x) + 1
                THEN {[added |-> <<x>> \o o.added, rest |-> o.rest] :
                        o \in encodeSomePrefixes_drop(prefixSet \ {x},
                                                      maxLen - (octetLen(x) + 1))}
                ELSE {[added |-> <<>>, rest |-> prefixSet \ {x}]} : x \in prefixSet}

RECURSIVE encodeSomePrefixes(_, _)
\* BGP.encodeSomePrefixes with maxLen - bytesWritten for maxLen: what it may
\* write and what it may leave in prefixSet.  set.pop() takes any prefix of
\* the set; the first one that does not fit is put back and ends the loop.
encodeSomePrefixes(prefixSet, maxLen) ==
    IF prefixSet = {} THEN {[added |-> <<>>, rest |-> {}]}
    ELSE UNION {IF maxLen >= octetLen(x) + 1
                THEN {[added |-> <<x>> \o o.added, rest |-> o.rest] :
                        o \in encodeSomePrefixes(prefixSet \ {x},
                                                 maxLen - (octetLen(x) + 1))}
                ELSE {[added |-> <<>>, rest |-> prefixSet]} : x \in prefixSet}

\* BGPUpdateMessage.addSomeWithdrawals, o what encodeSomePrefixes did
addSomeWithdrawals(m, o) ==
    _updateMsgLen([m EXCEPT !.w = @ \o o.added,
                            !.wlen = Size(m.w \o o.added)])

\* BGPMessage._appendAll of the encoded attributes to msg[2], lenOffset = 0
_appendAll(m, attributes) ==
    IF MsgLen(m) + encodeAttributes(attributes) <= MAX_LEN
    THEN [msg |-> _updateMsgLen([m EXCEPT !.a = Append(@, attributes),
                                          !.alen = Bytes(Append(m.a, attributes))]),
          exc |-> "none"]
    ELSE [msg |-> m, exc |-> "ValueError"]

\* BGPUpdateMessage.addAttributes
addAttributes(m, attributes) == _appendAll(m, attributes)

\* BGPUpdateMessage.clearAttributes
clearAttributes(m) == _updateMsgLen([m EXCEPT !.a = <<>>, !.alen = 0])

\* BGPUpdateMessage.addSomeNLRI, o what encodeSomePrefixes did
addSomeNLRI(m, o) == _updateMsgLen([m EXCEPT !.n = @ \o o.added])

\* A call, for the properties: its name, the set of prefixes and the
\* attributes it was given, the message before it, the number it returned and
\* the exception it raised; for _sendInetUnicastUpdates the withdrawals too,
\* and the messages it gave to sendMessage
Call(name, P, attributes, before, ret, exc, W, msgs) ==
    [name |-> name, prefixSet |-> P, attributes |-> attributes, before |-> before,
     ret |-> ret, exc |-> exc, withdrawals |-> W, sent |-> msgs]

NoCall == Call("none", {}, NoAttributes, BGPUpdateMessage, 0, "none", {}, <<>>)

\* what a call of _sendInetUnicastUpdates gave to sendMessage, and how it ended
Packed(msgs, exc) == [sent |-> msgs, exc |-> exc]

RECURSIVE WithdrawalLoop(_, _)
\* 'while len(withdrawals) > 0' (2340-2347), entered with withdrawals not
\* empty: nothing takes a withdrawal out of withdrawals, so the loop is left
\* by the ValueError alone
WithdrawalLoop(withdrawalPrefixSet, msgs) ==
    UNION {IF Len(o.added) = 0 THEN {Packed(msgs, "ValueError")}
           ELSE WithdrawalLoop(o.rest,
                               Append(msgs, addSomeWithdrawals(BGPUpdateMessage, o))) :
           o \in encodeSomePrefixes(withdrawalPrefixSet, freeSpace(BGPUpdateMessage))}

RECURSIVE AdLoop_bare(_, _, _)
\* the loop 'while len(adPrefixSet) > 0' without its addAttributes
AdLoop_bare(attributes, adPrefixSet, msgs) ==
    IF adPrefixSet = {} THEN {Packed(msgs, "none")}
    ELSE UNION {IF Len(o.added) = 0 THEN {Packed(msgs, "ValueError")}
                ELSE AdLoop_bare(attributes, o.rest,
                                 Append(msgs, addSomeNLRI(BGPUpdateMessage, o))) :
                o \in encodeSomePrefixes(adPrefixSet, freeSpace(BGPUpdateMessage))}
RECURSIVE AdLoop(_, _, _)
\* 'while len(adPrefixSet) > 0' (2367-2382)
AdLoop(attributes, adPrefixSet, msgs) ==
    IF adPrefixSet = {} THEN {Packed(msgs, "none")}
    ELSE IF addAttributes(BGPUpdateMessage, attributes).exc # "none"
    THEN {Packed(msgs, "ValueError")}
    ELSE UNION {IF Len(o.added) = 0 THEN {Packed(msgs, "ValueError")}
                ELSE AdLoop(attributes, o.rest,
                            Append(msgs,
                                   addSomeNLRI(addAttributes(BGPUpdateMessage,
                                                             attributes).msg, o))) :
                o \in encodeSomePrefixes(adPrefixSet,
                        freeSpace(addAttributes(BGPUpdateMessage, attributes).msg))}

\* The body of the loop of _sendInetUnicastUpdates for one attribute set and
\* its advertisements, the withdrawals and advertisements given by their
\* prefixes: the UPDATEs it may send one after the other, and the exception
\* it ends with.
PackInetUnicast(withdrawals, attributes, advertisements) ==
    IF withdrawals # {} THEN WithdrawalLoop(withdrawals, <<>>)
    ELSE IF addAttributes(BGPUpdateMessage, attributes).exc # "none"
    THEN AdLoop(attributes, advertisements, <<BGPUpdateMessage>>)
    ELSE UNION {AdLoop(attributes, o.rest,
                       <<IF Len(o.added) = 0
                         THEN clearAttributes(addSomeNLRI(
                                  addAttributes(BGPUpdateMessage, attributes).msg, o))
                         ELSE addSomeNLRI(addAttributes(BGPUpdateMessage,
                                                        attributes).msg, o)>>) :
                o \in encodeSomePrefixes(advertisements,
                        freeSpace(addAttributes(BGPUpdateMessage, attributes).msg))}
\* ------------------------------------------------------------- deferreds
\* BGPPeering.protocolError: logs the failure
protocolError(s, p) == Emit(s, Out("protocolError", p, 0, 0))

\* Deferred.errback on protocol.deferred, with exc the failure passed in: both
\* deferreds a protocol ever has carry protocolError as errback
errback(s, p) ==
    IF s.proto[p].deferred = "called" THEN Raise(s, "AlreadyCalledError")
    ELSE protocolError([Caught(s) EXCEPT !.proto[p].deferred = "called"], p)

\* except NotificationSent, e: protocol.deferred.errback(e)
Notified(s, p) == IF s.exc = "NotificationSent" THEN errback(s, p) ELSE s

RECURSIVE DumpOthers(_, _, _)
\* BGPPeering.sessionEstablished, the loop over inConnections + outConnections
\* (a copy made when the loop starts); NotificationSent is passed over
DumpOthers(s, lst, p) ==
    IF lst = <<>> THEN s
    ELSE Then(PassOver(IF Head(lst) # p
                       THEN FSM_openCollisionDump(s, s.proto[Head(lst)].fsm)
                       ELSE s),
              LAMBDA s1 : DumpOthers(s1, Tail(lst), p))

\* a dict: d.setdefault(k, v), d[k] = v, and d[k] where a missing k is the
\* empty set
setdefault(d, k, v) ==
    IF k \in DOMAIN d THEN d ELSE [x \in DOMAIN d \cup {k} |-> IF x = k THEN v ELSE d[x]]
Put(d, k, v) == [x \in DOMAIN d \cup {k} |-> IF x = k THEN v ELSE d[x]]
Entry(d, k) == IF k \in DOMAIN d THEN d[k] ELSE {}

\* BGP.sendMessage of a BGPUpdateMessage that withdraws the prefixes w and
\* announces the prefixes n in its IPv4 blocks, and has the prefixes unreach
\* and reach, each with its address family, in MP-Unreach-NLRI and
\* MP-Reach-NLRI attributes.  For the properties the record of what is
\* written says whether the FSM of p is in Established at that moment (1) or
\* not (0).
sendMessage(s, p, w, n, unreach, reach) ==
    IF s.proto[p].transport = "lost" THEN s
    ELSE [Emit(s, OutData("UPDATE", p, 0,
                          IF s.proto[p].fsm # 0
                             /\ s.fsm[s.proto[p].fsm].state = ST_ESTABLISHED
                          THEN 1 ELSE 0,
                          <<w, n, unreach, reach>>))
            EXCEPT !.announced[p] = (@ \ (w \cup {x[2] : x \in unreach}))
                                    \cup n \cup {x[2] : x \in reach}]

sendUpdate(s, p, w, n) == sendMessage(s, p, w, n, {}, {})

\* the attribute set of the advertisements of Prefixes: ORIGIN, an empty
\* AS_PATH and NEXT_HOP
Attributes == [len |-> 14]

RECURSIVE SendAll(_, _)
\* the sendMessage calls of _sendInetUnicastUpdates and the exception it ends
\* with, if any
SendAll(s, r) ==
    IF r.sent = <<>> THEN Raise(s, r.exc)
    ELSE SendAll(sendUpdate(s, s.estabProtocol, Block(Head(r.sent).w),
                            Block(Head(r.sent).n)),
                 [r EXCEPT !.sent = Tail(@)])

\* NaiveBGPPeering._sendInetUnicastUpdates, the advertisements all with the
\* same attributes: attributeMap is empty when there is nothing to announce,
\* and the loop over it does nothing then.  The prefixes are few enough for
\* one UPDATE, which has them whatever the order set.pop() gives them in.
_sendInetUnicastUpdates(s, withdrawals, updates) ==
    IF updates = {} THEN s
    ELSE SendAll(s, CHOOSE r \in PackInetUnicast(withdrawals, Attributes, updates) : TRUE)

\* NaiveBGPPeering._sendMPUpdates, the advertisements all with the same
\* attributes, an MPReachNLRIAttribute among them: withdrawals is the set
\* withdrawals[af] of the caller, and 'withdrawals[addressfamily]' (2402) is
\* a subscript on a set
_sendMPUpdates(s, af, withdrawals, updates) ==
    IF withdrawals # {} THEN Raise(s, "TypeError")
    ELSE IF updates = {} THEN s
    ELSE sendMessage(s, s.estabProtocol, {}, {}, {}, {<<af, x>> : x \in updates})

RECURSIVE SendLoop(_, _, _, _, _)
\* the loop of _sendUpdates over the address families afs; same: the
\* arguments are self.advertised and self.toAdvertise themselves, which
\* setdefault then changes
SendLoop(s, afs, withdrawals, updates, same) ==
    IF afs = <<>> THEN s
    ELSE Then(Do(IF same
                 THEN [s EXCEPT !.advertised = setdefault(@, Head(afs), {}),
                                !.toAdvertise = setdefault(@, Head(afs), {})]
                 ELSE s,
                 LAMBDA s1 :
                    IF Head(afs) = INET
                    THEN _sendInetUnicastUpdates(s1, Entry(withdrawals, Head(afs)),
                                                 Entry(updates, Head(afs)))
                    ELSE _sendMPUpdates(s1, Head(afs), Entry(withdrawals, Head(afs)),
                                        Entry(updates, Head(afs)))),
              LAMBDA s2 :
                 IF Head(afs) \notin DOMAIN s2.toAdvertise THEN Raise(s2, "KeyError")
                 ELSE SendLoop([s2 EXCEPT !.advertised =
                                              Put(@, Head(afs), s2.toAdvertise[Head(afs)])],
                               Tail(afs), withdrawals, updates, same))

\* the address families of K in the order a loop over them takes
InOrder(s, K) == SelectSeq(s.afOrder, LAMBDA af : af \in K)

\* NaiveBGPPeering._sendUpdates
_sendUpdates(s, withdrawals, updates, same) ==
    IF s.estabProtocol = 0 \/ s.fsm[s.pfsm].state # ST_ESTABLISHED THEN s
    ELSE SendLoop(s, InOrder(s, DOMAIN withdrawals \cup DOMAIN updates),
                  withdrawals, updates, same)

\* NaiveBGPPeering.sendAdvertisements
sendAdvertisements(s) == _sendUpdates(s, s.advertised, s.toAdvertise, TRUE)

\* NaiveBGPPeering._calculateChanges: the two dicts it returns and the
\* exception it raises; self.advertised[af] and self.toAdvertise[af] are
\* subscripts on dicts
_calculateChanges(s) ==
    IF DOMAIN s.advertised = DOMAIN s.toAdvertise
    THEN [withdrawals |-> [af \in DOMAIN s.advertised |->
                              s.advertised[af] \ s.toAdvertise[af]],
          updates |-> [af \in DOMAIN s.advertised |->
                          s.toAdvertise[af] \ s.advertised[af]],
          exc |-> "none"]
    ELSE [withdrawals |-> <<>>, updates |-> <<>>, exc |-> "KeyError"]

RECURSIVE DefaultAll(_, _)
\* self.advertised.setdefault(af, set()) for the address families of afs
DefaultAll(d, afs) ==
    IF afs = <<>> THEN d ELSE DefaultAll(setdefault(d, Head(afs), {}), Tail(afs))

\* NaiveBGPPeering.setAdvertisements up to its call of _calculateChanges
Sorted(s, advertisements) ==
    [s EXCEPT !.advertised = DefaultAll(@, InOrder(s, s.addressFamilies)),
              !.toAdvertise = [af \in s.addressFamilies |->
                                 {ad \in advertisements : addressfamily(ad) = af}]]

\* NaiveBGPPeering.setAdvertisements
setAdvertisements(s, advertisements) ==
    Do(Sorted(s, advertisements),
       LAMBDA s1 :
          IF _calculateChanges(s1).exc # "none"
          THEN Raise(s1, _calculateChanges(s1).exc)
          ELSE _sendUpdates(s1, _calculateChanges(s1).withdrawals,
                            _calculateChanges(s1).updates, FALSE))

\* BGPPeering.setEnabledAddressFamilies
setEnabledAddressFamilies(s, families) == [s EXCEPT !.addressFamilies = families]

\* BGPPeering.sessionEstablished
sessionEstablished(s, p) ==
    Then(DumpOthers([Emit(s, Out("sessionEstablished", p, 0, 0))
                        EXCEPT !.estabProtocol = p,
                               !.pfsm = s.proto[p].fsm,
                               !.proto[p].deferred = "pending",
                               !.proto[p].callbacks = "estab"],
                    s.inConnections \o s.outConnections, p),
         LAMBDA s1 : sendAdvertisements(s1))

\* Deferred.callback on protocol.deferred: an exception raised inside the
\* callback chain stays inside the Deferred
callback(s, p) ==
    IF s.proto[p].deferred = "called" THEN Raise(s, "AlreadyCalledError")
    ELSE IF s.proto[p].callbacks = "init"
    THEN Caught(sessionEstablished([s EXCEPT !.proto[p].deferred = "called"], p))
    ELSE [s EXCEPT !.proto[p].deferred = "called"]

\* ----------------------------------------------------- collision detection
\* BGPPeering.collisionDetect: the connections other than protocol that are in
\* OpenConfirm or Established
openConfirmConnections(s, p) ==
    SelectSeq(s.inConnections \o s.outConnections,
              LAMBDA c : c # p /\ s.fsm[s.proto[c].fsm].state
                                    \in {ST_OPENCONFIRM, ST_ESTABLISHED})

\* the tie-break with the comparison turned round
dumpList_swapped(s, p) == IF s.bgpId > s.proto[p].peerId THEN "out" ELSE "in"

\* the tie-break with the first branch lost: inConnections whatever the identifiers
dumpList_alwaysIn(s, p) == "in"

\* BGPPeering.collisionDetect: which list the tie-break dumps
dumpList(s, p) == IF s.bgpId < s.proto[p].peerId THEN "out" ELSE "in"

TheList(s, which) == IF which = "out" THEN s.outConnections ELSE s.inConnections

RECURSIVE DumpLoop(_, _, _)
\* BGPPeering.collisionDetect, "for c in dumpList": the iterator walks the live
\* list by index, while connectionClosed removes the dumped entries from it
DumpLoop(s, which, i) ==
    IF i > Len(TheList(s, which)) THEN s
    ELSE Then(Notified(FSM_openCollisionDump(s, s.proto[TheList(s, which)[i]].fsm),
                       TheList(s, which)[i]),
              LAMBDA s1 : DumpLoop(s1, which, i + 1))

\* what collisionDetect returned, kept in out: a = 1 for True, 0 for False
Returned(s, p, value) == Emit(s, Out("collisionDetect", p, IF value THEN 1 ELSE 0, 0))

\* BGPPeering.collisionDetect
collisionDetect(s, p) ==
    IF Len(openConfirmConnections(s, p)) < 1 THEN Returned(s, p, FALSE)
    ELSE IF \E i \in 1..Len(openConfirmConnections(s, p)) :
                s.fsm[s.proto[openConfirmConnections(s, p)[i]].fsm].state = ST_ESTABLISHED
    THEN Then(FSM_openCollisionDump(s, s.proto[p].fsm),
              LAMBDA s1 : Returned(s1, p, TRUE))
    ELSE IF s.proto[p].peerId = 0 THEN Raise(s, "AttributeError")
    ELSE IF s.bgpId = s.proto[p].peerId THEN Raise(s, "AssertionError")
    ELSE Then(DumpLoop(Emit(s, Out("tieBreak", p, 0, 0)), dumpList(s, p), 1),
              LAMBDA s1 : Returned(s1, p, InSeq(TheList(s1, dumpList(s, p)), p)))

\* ------------------------------------------------------ FSM event handlers
AllTimers == TimerNames

\* NaiveBGPPeering.completeInit
completeInit(s, p) == [s EXCEPT !.advertised = <<>>]

\* BGPPeering.releaseResources
releaseResources(s, p) == s

\* BGPPeering.registerConsumer: consumers is a set, so a consumer that is in
\* it already is not added again, and the place i a new one takes in a loop
\* over the set is for its hash to decide
registerConsumer(s, consumer, i) ==
    IF InSeq(s.consumers, consumer) THEN s
    ELSE [s EXCEPT !.consumers = SubSeq(@, 1, i) \o <<consumer>> \o SubSeq(@, i + 1, Len(@))]

RECURSIVE WriteAll(_, _)
\* for consumer in self.consumers: consumer.write(update)
WriteAll(s, cs) ==
    IF cs = <<>> THEN s
    ELSE WriteAll(Emit(s, Out("write", 0, Head(cs), 0)), Tail(cs))

\* BGPPeering.update: hands the UPDATE to the consumers
BGPPeering_update(s) == WriteAll(s, s.consumers)

\* send NOTIFICATION (error, suberror), _errorClose, raise NotificationSent
NotifyErrorClose(s, f, error, suberror) ==
    Then(sendNotification(s, s.fsm[f].protocol, error, suberror),
         LAMBDA s1 : Raise(FSM__errorClose(s1, f), "NotificationSent"))

\* FSM.manualStart (event 1)
FSM_manualStart(s, f) ==
    IF s.fsm[f].state = ST_IDLE
    THEN TimerReset([s EXCEPT !.fsm[f].connectRetryCounter = 0], f, "connectRetry")
    ELSE s

\* FSM.manualStop (event 2)
FSM_manualStop(s, f) ==
    IF s.fsm[f].state # ST_IDLE
    THEN Then(sendNotification(s, s.fsm[f].protocol, ERR_CEASE, 0),
              LAMBDA s1 :
                  Raise([FSM__closeConnection(
                             releaseResources(CancelTimers(s1, f, AllTimers),
                                              s1.fsm[f].protocol), f)
                            EXCEPT !.fsm[f].connectRetryCounter = 0,
                                   !.fsm[f].state = ST_IDLE],
                        "NotificationSent"))
    ELSE s

\* FSM.connectionMade (events 16, 17)
FSM_connectionMade(s, f) ==
    IF s.fsm[f].state \in {ST_CONNECT, ST_ACTIVE}
    THEN IF s.fsm[f].delayOpen
         THEN TimerReset(TimerCancel(s, f, "connectRetry"), f, "delayOpen")
         ELSE Then(sendOpen(completeInit(TimerCancel(s, f, "connectRetry"),
                                         s.fsm[f].protocol),
                            s.fsm[f].protocol),
                   LAMBDA s1 : [TimerReset(s1, f, "hold")
                                   EXCEPT !.fsm[f].state = ST_OPENSENT])
    ELSE s

\* FSM.connectionFailed (event 18)
FSM_connectionFailed(s, f) ==
    CASE s.fsm[f].state = ST_CONNECT ->
            IF TimerActive(s, f, "delayOpen")
            THEN [TimerCancel(TimerReset(s, f, "connectRetry"), f, "delayOpen")
                     EXCEPT !.fsm[f].state = ST_ACTIVE]
            ELSE Do(FSM__closeConnection(TimerCancel(s, f, "connectRetry"), f),
                    LAMBDA s1 : [releaseResources(s1, s1.fsm[f].protocol)
                                    EXCEPT !.fsm[f].state = ST_IDLE])
      [] s.fsm[f].state = ST_ACTIVE ->
            [releaseResources(TimerCancel(TimerReset(s, f, "connectRetry"), f, "delayOpen"),
                              s.fsm[f].protocol)
                EXCEPT !.fsm[f].connectRetryCounter = @ + 1,
                       !.fsm[f].state = ST_IDLE]
      [] s.fsm[f].state = ST_OPENSENT ->
            [TimerReset(FSM__closeConnection(releaseResources(s, s.fsm[f].protocol), f),
                        f, "connectRetry")
                EXCEPT !.fsm[f].state = ST_ACTIVE]
      [] s.fsm[f].state \in {ST_OPENCONFIRM, ST_ESTABLISHED} ->
            FSM__errorClose(s, f)
      [] OTHER -> s

\* FSM.openReceived (events 19, 20)
FSM_openReceived(s, f) ==
    CASE s.fsm[f].state \in {ST_CONNECT, ST_ACTIVE} ->
            IF TimerActive(s, f, "delayOpen")
            THEN Then(sendOpen(TimerCancel(completeInit(TimerCancel(s, f, "connectRetry"),
                                                        s.fsm[f].protocol),
                                           f, "delayOpen"),
                               s.fsm[f].protocol),
                      LAMBDA s1 :
                 Then(sendKeepAlive(s1, s1.fsm[f].protocol),
                      LAMBDA s2 :
                          IF s2.fsm[f].holdTime # 0
                          THEN \* self.KeepAliveTimer: the FSM has no such attribute
                               Raise(s2, "AttributeError")
                          ELSE [CancelTimers(s2, f, {"keepAlive", "hold"})
                                   EXCEPT !.fsm[f].state = ST_OPENCONFIRM]))
            ELSE FSM__errorClose(s, f)
      [] s.fsm[f].state = ST_OPENSENT ->
            Then(sendKeepAlive(CancelTimers(s, f, {"delayOpen", "connectRetry"}),
                               s.fsm[f].protocol),
                 LAMBDA s1 :
                     [(IF s1.fsm[f].holdTime > 0
                       THEN TimerReset(TimerReset(s1, f, "keepAlive"), f, "hold")
                       ELSE s1)
                         EXCEPT !.fsm[f].state = ST_OPENCONFIRM])
      [] s.fsm[f].state = ST_OPENCONFIRM ->
            IF s.fsm[f].protocol = 0 THEN Raise(s, "AttributeError")
            ELSE collisionDetect(s, s.fsm[f].protocol)
      [] s.fsm[f].state = ST_ESTABLISHED ->
            NotifyErrorClose(s, f, ERR_FSM, 0)
      [] OTHER -> s

\* FSM.headerError (event 21)
FSM_headerError(s, f, suberror) == NotifyErrorClose(s, f, ERR_MSG_HDR, suberror)

\* FSM.openMessageError (event 22)
FSM_openMessageError(s, f, suberror) == NotifyErrorClose(s, f, ERR_MSG_OPEN, suberror)

\* FSM.openMessageError called with data
FSM_openMessageErrorData(s, f, suberror, data) ==
    Then(sendNotificationData(s, s.fsm[f].protocol, ERR_MSG_OPEN, suberror, data),
         LAMBDA s1 : Raise(FSM__errorClose(s1, f), "NotificationSent"))

\* FSM.keepAliveReceived with the deferred of the protocol never fired
FSM_keepAliveReceived_noCallback(s, f) ==
    CASE s.fsm[f].state = ST_OPENCONFIRM ->
            [TimerReset(s, f, "hold") EXCEPT !.fsm[f].state = ST_ESTABLISHED]
      [] s.fsm[f].state = ST_ESTABLISHED -> TimerReset(s, f, "hold")
      [] s.fsm[f].state \in {ST_CONNECT, ST_ACTIVE} -> FSM__errorClose(s, f)
      [] OTHER -> s

\* FSM.keepAliveReceived (event 26)
FSM_keepAliveReceived(s, f) ==
    CASE s.fsm[f].state = ST_OPENCONFIRM ->
            IF s.fsm[f].protocol = 0
            THEN Raise([TimerReset(s, f, "hold") EXCEPT !.fsm[f].state = ST_ESTABLISHED],
                       "AttributeError")
            ELSE callback([TimerReset(s, f, "hold") EXCEPT !.fsm[f].state = ST_ESTABLISHED],
                          s.fsm[f].protocol)
      [] s.fsm[f].state = ST_ESTABLISHED -> TimerReset(s, f, "hold")
      [] s.fsm[f].state \in {ST_CONNECT, ST_ACTIVE} -> FSM__errorClose(s, f)
      [] OTHER -> s

\* FSM.versionError (event 24)
FSM_versionError(s, f) ==
    CASE s.fsm[f].state \in {ST_OPENSENT, ST_OPENCONFIRM} ->
            [FSM__closeConnection(releaseResources(TimerCancel(s, f, "connectRetry"),
                                                   s.fsm[f].protocol), f)
                EXCEPT !.fsm[f].state = ST_IDLE]
      [] s.fsm[f].state \in {ST_CONNECT, ST_ACTIVE} -> FSM__errorClose(s, f)
      [] OTHER -> s

\* FSM.notificationReceived (events 24, 25)
FSM_notificationReceived(s, f, error, suberror) ==
    IF error = ERR_MSG_OPEN /\ suberror = 1
    THEN FSM_versionError(s, f)
    ELSE IF s.fsm[f].state # ST_IDLE THEN FSM__errorClose(s, f) ELSE s

\* FSM.updateReceived with the NOTIFICATION of the FSM error forgotten
FSM_updateReceived_silent(s, f) ==
    CASE s.fsm[f].state = ST_ESTABLISHED ->
            BGPPeering_update(IF s.fsm[f].holdTime # 0
                              THEN TimerReset(s, f, "hold") ELSE s)
      [] s.fsm[f].state \in {ST_ACTIVE, ST_CONNECT, ST_OPENSENT, ST_OPENCONFIRM} ->
            FSM__errorClose(s, f)
      [] OTHER -> s

\* FSM.updateReceived (event 27)
FSM_updateReceived(s, f) ==
    CASE s.fsm[f].state = ST_ESTABLISHED ->
            BGPPeering_update(IF s.fsm[f].holdTime # 0
                              THEN TimerReset(s, f, "hold") ELSE s)
      [] s.fsm[f].state \in {ST_ACTIVE, ST_CONNECT} -> FSM__errorClose(s, f)
      [] s.fsm[f].state \in {ST_OPENSENT, ST_OPENCONFIRM} ->
            NotifyErrorClose(s, f, ERR_FSM, 0)
      [] OTHER -> s

\* FSM.updateError (event 28)
FSM_updateError(s, f, suberror) ==
    CASE s.fsm[f].state = ST_ESTABLISHED ->
            NotifyErrorClose(s, f, ERR_MSG_UPDATE, suberror)
      [] s.fsm[f].state \in {ST_ACTIVE, ST_CONNECT} -> FSM__errorClose(s, f)
      [] s.fsm[f].state \in {ST_OPENSENT, ST_OPENCONFIRM} ->
            \* sendNotification(self.protocol, ERR_FSM, 0): struct.pack is given
            \* the protocol object as the error code
            IF s.fsm[f].protocol = 0 THEN Raise(s, "AttributeError")
            ELSE Raise(s, "struct.error")
      [] OTHER -> s

\* FSM.delayOpenEvent (event 12)
FSM_delayOpenEvent(s, f) ==
    IF ~s.fsm[f].delayOpen THEN Raise(s, "AssertionError")
    ELSE CASE s.fsm[f].state = ST_CONNECT ->
                Then(sendOpen(s, s.fsm[f].protocol),
                     LAMBDA s1 : [TimerReset(s1, f, "hold")
                                     EXCEPT !.fsm[f].state = ST_OPENSENT])
           [] s.fsm[f].state = ST_ACTIVE ->
                \* self.sendOpen(): the FSM has no such method
                Raise(completeInit(CancelTimers(s, f, {"connectRetry", "delayOpen"}),
                                   s.fsm[f].protocol),
                      "AttributeError")
           [] s.fsm[f].state # ST_IDLE -> NotifyErrorClose(s, f, ERR_FSM, 0)
           [] OTHER -> s

\* FSM.keepAliveEvent (event 11)
FSM_keepAliveEvent(s, f) ==
    CASE s.fsm[f].state \in {ST_OPENCONFIRM, ST_ESTABLISHED} ->
            Then(sendKeepAlive(s, s.fsm[f].protocol),
                 LAMBDA s1 : IF s1.fsm[f].holdTime > 0
                             THEN TimerReset(s1, f, "keepAlive") ELSE s1)
      [] s.fsm[f].state \in {ST_CONNECT, ST_ACTIVE} -> FSM__errorClose(s, f)
      [] OTHER -> s

\* FSM.holdTimeEvent with the NOTIFICATION forgotten
FSM_holdTimeEvent_noNotification(s, f) ==
    CASE s.fsm[f].state \in {ST_OPENSENT, ST_OPENCONFIRM, ST_ESTABLISHED} ->
            [FSM__errorClose(TimerCancel(s, f, "connectRetry"), f)
                EXCEPT !.fsm[f].connectRetryCounter = @ + 1,
                       !.fsm[f].state = ST_IDLE]
      [] s.fsm[f].state \in {ST_CONNECT, ST_ACTIVE} -> FSM__errorClose(s, f)
      [] OTHER -> s

\* FSM.holdTimeEvent (event 10)
FSM_holdTimeEvent(s, f) ==
    CASE s.fsm[f].state \in {ST_OPENSENT, ST_OPENCONFIRM, ST_ESTABLISHED} ->
            Then(sendNotification(s, s.fsm[f].protocol, ERR_HOLD_TIMER_EXPIRED, 0),
                 LAMBDA s1 :
                     [FSM__errorClose(TimerCancel(s1, f, "connectRetry"), f)
                         EXCEPT !.fsm[f].connectRetryCounter = @ + 1,
                                !.fsm[f].state = ST_IDLE])
      [] s.fsm[f].state \in {ST_CONNECT, ST_ACTIVE} -> FSM__errorClose(s, f)
      [] OTHER -> s

\* BGPPeering.connectRetryEvent
connectRetryEvent(s) == connect(s)

\* FSM.connectRetryTimeEvent (event 9)
FSM_connectRetryTimeEvent(s, f) ==
    CASE s.fsm[f].state \in {ST_CONNECT, ST_ACTIVE} ->
            connectRetryEvent(
                TimerCancel(TimerReset(FSM__closeConnection(s, f), f, "connectRetry"),
                            f, "delayOpen"))
      [] s.fsm[f].state # ST_IDLE -> NotifyErrorClose(s, f, ERR_FSM, 0)
      [] OTHER -> s

\* FSM.idleHoldTimeEvent (event 13)
FSM_idleHoldTimeEvent(s, f) ==
    IF s.fsm[f].state = ST_IDLE THEN BGPPeering_automaticStart(s, FALSE) ELSE s

\* ------------------------------------------------------ received messages
Msg(type, version, asn, hold, id, error, suberror) ==
    [type |-> type, version |-> version, asn |-> asn, hold |-> hold, id |-> id,
     error |-> error, suberror |-> suberror]

PeerASN == CHOOSE a \in {64513} : TRUE
NoMsg == Msg("none", 0, 0, 0, 0, 0, 0)
ValidOpens == {Msg("OPEN", VERSION, PeerASN, h, i, 0, 0) : h \in PeerHoldTimes, i \in PeerIds}
\* OPENs that parseOpen rejects: version 3; ASN 0 and 65535; the BGP
\* identifiers 0, 2**32-1 (written -1) and the local one
InvalidOpens ==
    {Msg("OPEN", 3, PeerASN, DefaultHoldTime, 1, 0, 0)}
    \cup {Msg("OPEN", VERSION, a, DefaultHoldTime, 1, 0, 0) : a \in {0, 65535}}
    \cup {Msg("OPEN", VERSION, PeerASN, DefaultHoldTime, i, 0, 0) : i \in {0, -1} \cup LocalIds}
KeepAliveMsg == Msg("KEEPALIVE", 0, 0, 0, 0, 0, 0)
UpdateMsg == Msg("UPDATE", 0, 0, 0, 0, 0, 0)
\* an UPDATE whose attributes AttributeDict rejects (error 3, suberror 3)
BadUpdateMsg == Msg("UPDATE", 0, 0, 0, 0, ERR_MSG_UPDATE, 3)
NotificationMsgs == {Msg("NOTIFICATION", 0, 0, 0, 0, ERR_MSG_OPEN, 1),
                     Msg("NOTIFICATION", 0, 0, 0, 0, ERR_CEASE, 0)}
\* a header with a wrong marker, a wrong length, an unknown type
BadHeaderMsgs == {Msg("badmarker", 0, 0, 0, 0, 0, 0), Msg("badlength", 0, 0, 0, 0, 0, 0),
                  Msg("badtype", 0, 0, 0, 0, 0, 0)}
\* the messages that bring a session up: OPEN with the hold time the local
\* speaker offers itself, KEEPALIVE
Handshake == {m \in ValidOpens : m.hold = DefaultHoldTime} \cup {KeepAliveMsg}
Msgs == ValidOpens \cup InvalidOpens \cup {KeepAliveMsg, UpdateMsg, BadUpdateMsg}
        \cup NotificationMsgs \cup BadHeaderMsgs

\* ----------------------------------------------------------- BGP protocol
RECURSIVE CeaseAll(_, _)
\* BGPPeering.setPeerId, the loop over inConnections + outConnections
CeaseAll(s, lst) ==
    IF lst = <<>> THEN s
    ELSE Then(Notified(FSM_openCollisionDump(s, s.proto[Head(lst)].fsm), Head(lst)),
              LAMBDA s1 : CeaseAll(s1, Tail(lst)))

\* BGPPeering.setPeerId
setPeerId(s, id) ==
    IF s.peerId = 0 THEN [s EXCEPT !.peerId = id]
    ELSE IF s.peerId # id
    THEN CeaseAll([s EXCEPT !.peerId = 0], s.inConnections \o s.outConnections)
    ELSE s

\* BGP.parseOpen with the ASN 65535 let through
parseOpen_asn0(s, p, m) ==
    IF m.version # VERSION
    THEN FSM_openMessageErrorData(s, s.proto[p].fsm, ERR_MSG_OPEN_UNSUP_VERSION,
                                  <<VERSION>>)
    ELSE IF m.asn \in {0}
    THEN FSM_openMessageError(s, s.proto[p].fsm, ERR_MSG_OPEN_BAD_PEER_AS)
    ELSE IF m.id \in {0, -1, s.bgpId}
    THEN FSM_openMessageError(s, s.proto[p].fsm, ERR_MSG_OPEN_BAD_BGP_ID)
    ELSE s

\* BGP.parseOpen: the first check that fails raises.  2**32-1 is written -1,
\* the same 32 bits read as a signed number, which is what TLC's integers hold
parseOpen(s, p, m) ==
    IF m.version # VERSION
    THEN FSM_openMessageErrorData(s, s.proto[p].fsm, ERR_MSG_OPEN_UNSUP_VERSION,
                                  <<VERSION>>)
    ELSE IF m.asn \in {0, 65535}
    THEN FSM_openMessageError(s, s.proto[p].fsm, ERR_MSG_OPEN_BAD_PEER_AS)
    ELSE IF m.id \in {0, -1, s.bgpId}
    THEN FSM_openMessageError(s, s.proto[p].fsm, ERR_MSG_OPEN_BAD_BGP_ID)
    ELSE s

Min(a, b) == IF a < b THEN a ELSE b

\* BGP.negotiateHoldTime with the bound of the rejected values off by one
negotiateHoldTime_below2(s, p, holdTime) ==
    Then(IF Min(s.fsm[s.proto[p].fsm].holdTime, holdTime) # 0
            /\ Min(s.fsm[s.proto[p].fsm].holdTime, holdTime) < 2
         THEN FSM_openMessageError([s EXCEPT !.fsm[s.proto[p].fsm].holdTime = Min(@, holdTime)],
                                   s.proto[p].fsm, ERR_MSG_OPEN_UNACCPT_HOLD_TIME)
         ELSE [s EXCEPT !.fsm[s.proto[p].fsm].holdTime = Min(@, holdTime)],
         LAMBDA s1 : [s1 EXCEPT !.fsm[s.proto[p].fsm].keepAliveTime =
                                    s1.fsm[s.proto[p].fsm].holdTime \div 3])

\* BGP.negotiateHoldTime
negotiateHoldTime(s, p, holdTime) ==
    Then(IF Min(s.fsm[s.proto[p].fsm].holdTime, holdTime) # 0
            /\ Min(s.fsm[s.proto[p].fsm].holdTime, holdTime) < 3
         THEN FSM_openMessageError([s EXCEPT !.fsm[s.proto[p].fsm].holdTime = Min(@, holdTime)],
                                   s.proto[p].fsm, ERR_MSG_OPEN_UNACCPT_HOLD_TIME)
         ELSE [s EXCEPT !.fsm[s.proto[p].fsm].holdTime = Min(@, holdTime)],
         LAMBDA s1 : [s1 EXCEPT !.fsm[s.proto[p].fsm].keepAliveTime =
                                    s1.fsm[s.proto[p].fsm].holdTime \div 3])

\* BGP.openReceived
BGP_openReceived(s, p, m) ==
    Then(setPeerId([s EXCEPT !.proto[p].peerId = m.id], m.id),
         LAMBDA s1 :
    Then(collisionDetect(s1, p),
         LAMBDA s2 :
    Then(negotiateHoldTime(s2, p, m.hold),
         LAMBDA s3 : FSM_openReceived(s3, s3.proto[p].fsm))))

\* BGP.updateReceived
BGP_updateReceived(s, p, m) ==
    IF m.error # 0
    THEN FSM_updateError(s, s.proto[p].fsm, m.suberror)
    ELSE FSM_updateReceived(s, s.proto[p].fsm)

\* BGP.keepAliveReceived
BGP_keepAliveReceived(s, p) ==
    IF ~TimerActive(s, s.proto[p].fsm, "hold") THEN Raise(s, "AssertionError")
    ELSE FSM_keepAliveReceived(s, s.proto[p].fsm)

\* BGP.notificationReceived
BGP_notificationReceived(s, p, m) ==
    FSM_notificationReceived(s, s.proto[p].fsm, m.error, m.suberror)

\* BGP.parseBuffer on a buffer that holds the whole message m
parseBuffer(s, p, m) ==
    IF m.type = "badmarker"
    THEN FSM_headerError(s, s.proto[p].fsm, ERR_MSG_HDR_CONN_NOT_SYNC)
    ELSE IF m.type = "badlength"
    THEN FSM_headerError(s, s.proto[p].fsm, ERR_MSG_HDR_BAD_MSG_LEN)
    ELSE Notified(CASE m.type = "OPEN" ->
                         Then(parseOpen(s, p, m),
                              LAMBDA s1 : BGP_openReceived(s1, p, m))
                    [] m.type = "UPDATE" -> BGP_updateReceived(s, p, m)
                    [] m.type = "KEEPALIVE" -> BGP_keepAliveReceived(s, p)
                    [] m.type = "NOTIFICATION" -> BGP_notificationReceived(s, p, m)
                    [] m.type = "badbody" ->
                          FSM_headerError(s, s.proto[p].fsm, ERR_MSG_HDR_BAD_MSG_LEN)
                    [] OTHER -> FSM_headerError(s, s.proto[p].fsm,
                                                ERR_MSG_HDR_BAD_MSG_TYPE),
                  p)

\* ---------------------------------------------------- the bytes of a message
\* struct.pack / struct.unpack of '!H' and '!I'
Pack2(n) == <<(n \div 256) % 256, n % 256>>
Unpack2(b) == b[1] * 256 + b[2]
Pack4(n) == Pack2((n \div 65536) % 65536) \o Pack2(n % 65536)
Unpack4(b) == Unpack2(SubSeq(b, 1, 2)) * 65536 + Unpack2(SubSeq(b, 3, 4))

\* chr(255)*16
Marker == [i \in 1..16 |-> 255]

\* BGPMessage.prependHeader
prependHeader(message, type) == Marker \o Pack2(Len(message) + HDR_LEN) \o <<type>> \o message

\* The message m as the peer puts it on the wire: constructOpen (with no
\* optional parameters), constructUpdate (nothing withdrawn, no attributes,
\* no NLRI), constructKeepAlive, constructNotification (no data)
Encode(m) ==
    CASE m.type = "OPEN" ->
            prependHeader(<<m.version>> \o Pack2(m.asn) \o Pack2(m.hold)
                          \o Pack4(m.id) \o <<0>>, MSG_OPEN)
      [] m.type = "UPDATE" -> prependHeader(Pack2(0) \o Pack2(0), MSG_UPDATE)
      [] m.type = "NOTIFICATION" -> prependHeader(<<m.error, m.suberror>>, MSG_NOTIFICATION)
      [] OTHER -> prependHeader(<<>>, MSG_KEEPALIVE)

RECURSIVE Wire(_)
\* the bytes of the messages ms, one after the other
Wire(ms) == IF ms = <<>> THEN <<>> ELSE Encode(Head(ms)) \o Wire(Tail(ms))

\* What parseBuffer makes of the body of a message of the given type:
\* parseOpen unpacks '!BHHIB' from the first 10 bytes, parseNotification '!BB'
\* from the first 2, parseKeepAlive wants an empty body (BadMessageLength
\* otherwise: "badbody"); parseUpdate unpacks the two lengths (the prefixes
\* and attributes themselves are not looked into here)
Decode(type, message) ==
    CASE type = MSG_OPEN ->
            IF Len(message) < 10 THEN Msg("badbody", 0, 0, 0, 0, 0, 0)
            ELSE Msg("OPEN", message[1], Unpack2(SubSeq(message, 2, 3)),
                     Unpack2(SubSeq(message, 4, 5)), Unpack4(SubSeq(message, 6, 9)), 0, 0)
      [] type = MSG_UPDATE ->
            IF Len(message) < 4 THEN BadUpdateMsg ELSE UpdateMsg
      [] type = MSG_KEEPALIVE ->
            IF Len(message) # 0 THEN Msg("badbody", 0, 0, 0, 0, 0, 0) ELSE KeepAliveMsg
      [] type = MSG_NOTIFICATION ->
            IF Len(message) < 2 THEN Msg("badbody", 0, 0, 0, 0, 0, 0)
            ELSE Msg("NOTIFICATION", 0, 0, 0, 0, message[1], message[2])
      [] OTHER -> Msg("badtype", 0, 0, 0, 0, 0, 0)

\* What dataReceived leaves: the program state, the receive buffer, the
\* messages it handed to their handlers
Parsed(s, buf, log) == [s |-> s, buf |-> buf, log |-> log]

RECURSIVE dataReceived(_, _, _, _)
\* BGP.dataReceived with buf the receive buffer after the new data were
\* appended: parseBuffer as long as it returns True.  It returns False on a
\* buffer shorter than a header or than the length its header states; a
\* message is cut off the buffer after its handler returned; an exception
\* leaves the loop and the buffer as it is.
dataReceived(s, p, buf, log) ==
    IF Len(buf) < HDR_LEN THEN Parsed(s, buf, log)
    ELSE IF SubSeq(buf, 1, 16) # Marker
    THEN Parsed(parseBuffer(s, p, Msg("badmarker", 0, 0, 0, 0, 0, 0)), buf, log)
    ELSE IF Unpack2(SubSeq(buf, 17, 18)) < HDR_LEN \/ Unpack2(SubSeq(buf, 17, 18)) > MAX_LEN
    THEN Parsed(parseBuffer(s, p, Msg("badlength", 0, 0, 0, 0, 0, 0)), buf, log)
    ELSE IF Len(buf) < Unpack2(SubSeq(buf, 17, 18)) THEN Parsed(s, buf, log)
    ELSE LET length == Unpack2(SubSeq(buf, 17, 18))
             m == Decode(buf[HDR_LEN], SubSeq(buf, HDR_LEN + 1, length))
         IN Do(parseBuffer(s, p, m),
               LAMBDA s1 : IF Ok(s1)
                           THEN dataReceived(s1, p, SubSeq(buf, length + 1, Len(buf)),
                                             Append(log, m))
                           ELSE Parsed(s1, buf, Append(log, m)))

\* BGP.connectionMade
BGP_connectionMade(s, p) ==
    Notified(FSM_connectionMade([s EXCEPT !.proto[p].transport = "open"],
                                s.proto[p].fsm),
             p)

\* BGP.connectionLost, the transport no longer connected
BGP_connectionLost(s, p) ==
    IF s.proto[p].disconnected
    THEN connectionClosed([s EXCEPT !.proto[p].transport = "lost"], p)
    ELSE Notified(FSM_connectionFailed([s EXCEPT !.proto[p].transport = "lost"],
                                       s.proto[p].fsm),
                  p)

\* ------------------------------------------------------------ BGPPeering
\* BGPPeering._initProtocol, with BGP.__init__ for the new protocol
_initProtocol(s, p, port) ==
    LET f == s.pfsm
        g == s.nfsm + 1
    IN [s EXCEPT !.nproto = p,
                 !.proto[p] = [NewProto EXCEPT !.fsm = f, !.port = port,
                                               !.callbacks = "init"],
                 !.nfsm = g,
                 !.pfsm = g,
                 !.fsm[g] = [NewFSM(FALSE) EXCEPT !.state = s.fsm[f].state],
                 !.fsm[f].protocol = p,
                 !.fsm[f].state = IF port = PORT THEN ST_CONNECT ELSE ST_ACTIVE]

\* BGPPeering.buildProtocol
buildProtocol(s, p) ==
    [_initProtocol(s, p, PORT) EXCEPT !.outConnections = Append(@, p)]

\* BGPPeering.takeServerConnection
takeServerConnection(s, p, port) ==
    [_initProtocol(s, p, port) EXCEPT !.inConnections = Append(@, p)]

\* BGPPeering.clientConnectionFailed
clientConnectionFailed(s) == PassOver(FSM_connectionFailed(s, s.pfsm))

\* BGPPeering.manualStart
BGPPeering_manualStart(s) ==
    IF s.fsm[s.pfsm].state = ST_IDLE
    THEN [connect(FSM_manualStart(s, s.pfsm)) EXCEPT !.fsm[s.pfsm].state = ST_CONNECT]
    ELSE s

RECURSIVE StopAll(_, _)
\* BGPPeering.manualStop, the loop over inConnections + outConnections
StopAll(s, lst) ==
    IF lst = <<>> THEN s
    ELSE Then(PassOver(FSM_manualStop(s, s.proto[Head(lst)].fsm)),
              LAMBDA s1 : StopAll(s1, Tail(lst)))

\* BGPPeering.manualStop
BGPPeering_manualStop(s) == StopAll(s, s.inConnections \o s.outConnections)

\* ------------------------------------------------------------- the machine
Idling == <<0, 0>>

\* A callback: its name, the protocol and the FSM it is about (0: the FSM of
\* a protocol that was closed and forgotten), the message received, the
\* exception that left it, the state of the FSM before it and the FSM as the
\* callback left it.
Event(name, p, f, m, exc) ==
    [name |-> name, p |-> p, f |-> f, m |-> m, exc |-> exc,
     from |-> IF f = 0 THEN ST_IDLE ELSE fsm[f].state,
     fsm |-> IF f = 0 THEN NewFSM(FALSE) ELSE fsm[f],
     closes |-> <<>>]

\* The session that comes up at once: manualStart, the outbound connection is
\* made, a valid OPEN, a KEEPALIVE.  replay is the prefix of it the behaviour
\* has gone through, or Diverged once another callback ran.
Script == <<"manualStart", "connectionMade", "OPEN", "KEEPALIVE">>
Diverged == <<"diverged">>

\* what the callback e is, as an entry of Script
ScriptName(s, e) ==
    CASE e.name = "connectionMade" ->
            IF s.proto[e.p].port = PORT THEN "connectionMade" ELSE "accepted"
      [] e.name = "dataReceived" -> e.m.type
      [] OTHER -> e.name

Replayed(s, e) ==
    IF /\ replay # Diverged
       /\ Len(replay) < Len(Script)
       /\ ScriptName(s, e) = Script[Len(replay) + 1]
    THEN Append(replay, ScriptName(s, e))
    ELSE Diverged

\* BGPPeering.__init__ and NaiveBGPPeering.__init__, with d the DelayOpen
\* attribute of its FSM, n the number of connections the behaviour goes up
\* to, S the streams of messages the peer may send on the first one and O the
\* orders a loop over the address families may take, t whether the stops and
\* starts of the user are recorded.  The user has enabled
\* IPv4 unicast (setEnabledAddressFamilies): what __init__ itself leaves in
\* addressFamilies, set((AFI_INET, SAFI_UNICAST)), is a set of numbers
\* and not of an address family.
InitPeering(d, n, S, O, t) ==
    /\ stopped = t
    /\ fsm = [f \in FSMs |-> IF f = 1 THEN NewFSM(d) ELSE NewFSM(FALSE)]
    /\ nfsm = 1
    /\ proto = [p \in Protos |-> NewProto]
    /\ nproto = 0
    /\ limit = n
    /\ pfsm = 1
    /\ bgpId \in LocalIds
    /\ peerId = 0
    /\ inConnections = <<>>
    /\ outConnections = <<>>
    /\ estabProtocol = 0
    /\ pending = 0
    /\ reading = Idling
    /\ replay = <<>>
    /\ ev = [name |-> "init", p |-> 0, f |-> 1, m |-> NoMsg, exc |-> "none",
             from |-> ST_IDLE, fsm |-> NewFSM(FALSE), closes |-> <<>>]
    /\ out = <<>>
    /\ sent \in S
    /\ heard = 0
    /\ receiveBuffer = <<>>
    /\ dispatched = <<>>
    /\ consumers = <<>>
    /\ addressFamilies = {INET}
    /\ afOrder \in O
    /\ advertised = <<>>
    /\ toAdvertise = <<>>
    /\ announced = [p \in Protos |-> {}]
    /\ bgpupdate = BGPUpdateMessage
    /\ remaining = {}
    /\ call = NoCall

\* the same, what the user stopped and started not recorded
InitAll(d, n, S, O) == InitPeering(d, n, S, O, "off")

\* a loop over the address families takes IPv4 first
InitOf(d, n, S) == InitAll(d, n, S, {<<INET, INET6>>})

\* the peer's bytes are given message by message (DataReceivedOf)
InitWith(d, n) == InitOf(d, n, {<<>>})

Init == InitWith(FALSE, MaxConn)

\* The state a callback leaves, r the protocol whose dataReceived goes on
CommitHeap(left, e, r) ==
    /\ ~Spent
    /\ \E s0 \in {left} : \E s \in {Collect(s0, r)} :
        /\ s0.pending <= MaxPending
        /\ fsm' = s.fsm
        /\ nfsm' = s.nfsm
        /\ proto' = s.proto
        /\ nproto' = s.nproto
        /\ limit' = limit
        /\ pfsm' = s.pfsm
        /\ bgpId' = s.bgpId
        /\ peerId' = s.peerId
        /\ inConnections' = s.inConnections
        /\ outConnections' = s.outConnections
        /\ estabProtocol' = s.estabProtocol
        /\ pending' = s.pending
        /\ consumers' = s.consumers
        /\ addressFamilies' = s.addressFamilies
        /\ afOrder' = afOrder
        /\ advertised' = s.advertised
        /\ toAdvertise' = s.toAdvertise
        /\ announced' = s.announced
        /\ reading' = r
        /\ replay' = Replayed(s0, e)
        /\ ev' = [e EXCEPT !.exc = s0.exc,
                            !.fsm = IF e.f = 0 THEN @ ELSE s0.fsm[e.f],
                            !.closes = s0.closes]
        /\ out' = s0.out
        /\ stopped' = CASE stopped = "off" -> "off"
                         [] e.name = "manualStop" -> "stopped"
                         [] e.name \in {"manualStart", "automaticStart"} -> "started"
                         [] OTHER -> stopped
        /\ UNCHANGED <<bgpupdate, remaining, call>>

\* the same for a callback that is given no bytes of the stream
Commit(left, e, r) ==
    /\ CommitHeap(left, e, r)
    /\ UNCHANGED <<sent, heard, receiveBuffer, dispatched>>

\* ------------------------------------------- building and packing UPDATEs
\* bgpupdate = BGPUpdateMessage()
NewUpdateMessage ==
    /\ bgpupdate' = BGPUpdateMessage
    /\ remaining' = {}
    /\ call' = Call("BGPUpdateMessage", {}, NoAttributes, bgpupdate, 0, "none", {}, <<>>)
    /\ UNCHANGED peeringVars

\* bgpupdate.addSomeWithdrawals(P)
AddSomeWithdrawals ==
    \E P \in SUBSET PackPrefixes :
        \E o \in encodeSomePrefixes(P, freeSpace(bgpupdate)) :
            /\ Len(bgpupdate.w) + Len(bgpupdate.n) + Len(o.added) <= MaxEncoded
            /\ bgpupdate' = addSomeWithdrawals(bgpupdate, o)
            /\ remaining' = o.rest
            /\ call' = Call("addSomeWithdrawals", P, NoAttributes, bgpupdate,
                            Len(o.added), "none", {}, <<>>)
            /\ UNCHANGED peeringVars

\* bgpupdate.addSomeNLRI(P)
AddSomeNLRI ==
    \E P \in SUBSET PackPrefixes :
        \E o \in encodeSomePrefixes(P, freeSpace(bgpupdate)) :
            /\ Len(bgpupdate.w) + Len(bgpupdate.n) + Len(o.added) <= MaxEncoded
            /\ bgpupdate' = addSomeNLRI(bgpupdate, o)
            /\ remaining' = o.rest
            /\ call' = Call("addSomeNLRI", P, NoAttributes, bgpupdate,
                            Len(o.added), "none", {}, <<>>)
            /\ UNCHANGED peeringVars

\* bgpupdate.addAttributes(attributes)
AddAttributes ==
    \E attributes \in AttributeSets :
        /\ Len(bgpupdate.a) < MaxAttrCalls
        /\ bgpupdate' = addAttributes(bgpupdate, attributes).msg
        /\ remaining' = {}
        /\ call' = Call("addAttributes", {}, attributes, bgpupdate, 0,
                        addAttributes(bgpupdate, attributes).exc, {}, <<>>)
        /\ UNCHANGED peeringVars

\* bgpupdate.clearAttributes()
ClearAttributes ==
    /\ bgpupdate' = clearAttributes(bgpupdate)
    /\ remaining' = {}
    /\ call' = Call("clearAttributes", {}, NoAttributes, bgpupdate, 0, "none", {}, <<>>)
    /\ UNCHANGED peeringVars

\* NaiveBGPPeering._sendInetUnicastUpdates(withdrawals, attributeMap), the
\* advertisements all with the same attributes: attributeMap has one entry
\* for them, and none when there is no advertisement.  No prefix is both
\* withdrawn and advertised (_calculateChanges).  It builds its UPDATEs in a
\* variable of its own; the UPDATE under construction starts anew after it.
SendInetUnicastUpdates ==
    \E W \in SUBSET PackPrefixes : \E U \in SUBSET (PackPrefixes \ W) :
        \E attributes \in AttributeSets :
            \E r \in (IF U = {} THEN {Packed(<<>>, "none")}
                      ELSE PackInetUnicast(W, attributes, U)) :
                /\ bgpupdate' = BGPUpdateMessage
                /\ remaining' = {}
                /\ call' = Call("_sendInetUnicastUpdates", U, attributes,
                                BGPUpdateMessage, 0, r.exc, W, r.sent)
                /\ UNCHANGED peeringVars
\* the user calls BGPPeering.manualStart()
ManualStart ==
    /\ reading = Idling
    /\ Commit(BGPPeering_manualStart(Cur), Event("manualStart", 0, pfsm, NoMsg, "none"), Idling)

\* the user calls BGPPeering.manualStop()
ManualStop ==
    /\ reading = Idling
    /\ Commit(BGPPeering_manualStop(Cur), Event("manualStop", 0, pfsm, NoMsg, "none"), Idling)

\* the user calls BGPPeering.registerConsumer(consumer): with a consumer that
\* is registered already, or with the next new one
RegisterConsumer ==
    /\ reading = Idling
    /\ \E consumer \in 1..(Len(consumers) + 1), i \in 0..Len(consumers) :
          /\ consumer <= MaxConsumers
          /\ Commit(registerConsumer(Cur, consumer, i),
                    Event("registerConsumer", 0, pfsm, NoMsg, "none"), Idling)

\* the user calls NaiveBGPPeering.setAdvertisements(advertisements), the
\* advertisements taken from A
SetAdvertisementsOf(A) ==
    /\ reading = Idling
    /\ \E advertisements \in SUBSET A :
          Commit(setAdvertisements(Cur, advertisements),
                 Event("setAdvertisements", 0, pfsm, NoMsg, "none"), Idling)

\* the advertisements are all IPv4 unicast
SetAdvertisements == SetAdvertisementsOf(Prefixes)

\* the advertisements are IPv4 and IPv6 unicast
SetAdvertisementsMP == SetAdvertisementsOf(Prefixes \cup Prefixes6)

\* the user calls BGPPeering.setEnabledAddressFamilies(families)
SetEnabledAddressFamilies ==
    /\ reading = Idling
    /\ \E families \in SUBSET Families :
          /\ families # {}
          /\ Commit(setEnabledAddressFamilies(Cur, families),
                    Event("setEnabledAddressFamilies", 0, pfsm, NoMsg, "none"), Idling)

\* the user calls BGPPeering.automaticStart()
AutomaticStart ==
    /\ reading = Idling
    /\ Commit(BGPPeering_automaticStart(Cur, FALSE),
              Event("automaticStart", 0, pfsm, NoMsg, "none"), Idling)

\* an outbound TCP connection is made: buildProtocol, then BGP.connectionMade
ConnectSuccess ==
    /\ reading = Idling
    /\ pending > 0
    /\ nproto < limit
    /\ LET p == nproto + 1
           s1 == buildProtocol([Cur EXCEPT !.pending = @ - 1], p)
       IN Commit(BGP_connectionMade(s1, p), Event("connectionMade", p, pfsm, NoMsg, "none"), Idling)

\* an outbound TCP connection attempt fails: clientConnectionFailed
ConnectFail ==
    /\ reading = Idling
    /\ pending > 0
    /\ Commit(clientConnectionFailed([Cur EXCEPT !.pending = @ - 1]),
              Event("clientConnectionFailed", 0, pfsm, NoMsg, "none"), Idling)

\* the peer connects: takeServerConnection, then BGP.connectionMade
InboundConnection ==
    /\ reading = Idling
    /\ nproto < limit
    /\ \E port \in InboundPorts :
          LET p == nproto + 1
              s1 == takeServerConnection(Cur, p, port)
          IN Commit(BGP_connectionMade(s1, p),
                    Event("connectionMade", p, pfsm, NoMsg, "none"), Idling)

\* the connection of p is lost: the peer closed it, or our close completed
ConnectionLost ==
    /\ reading = Idling
    /\ \E p \in 1..nproto :
          /\ proto[p].transport \in {"open", "closing"}
          /\ Commit(BGP_connectionLost(Cur, p),
                    Event("connectionLost", p, proto[p].fsm, NoMsg, "none"), Idling)

\* BGP.dataReceived, one turn of its loop: parseBuffer on the next whole
\* message.  An exception that leaves dataReceived makes the reactor drop the
\* connection (connectionLost).  After the connection was closed the loop goes
\* on with what the chunk still holds.
DataReceivedOf(M) ==
    \E p \in 1..nproto, m \in M :
        /\ \/ reading = Idling /\ proto[p].transport = "open"
           \/ reading[1] = p
        /\ \E s1 \in {parseBuffer(Cur, p, m)} :
              LET n == IF reading[1] = p THEN reading[2] + 1 ELSE 0
                  e == Event("dataReceived", p, proto[p].fsm, m, "none")
              IN IF Ok(s1)
                 THEN \E more \in BOOLEAN :
                         /\ more => /\ s1.proto[p].transport = "closing"
                                    /\ n < MaxLeftover
                         /\ Commit(s1, e, IF more THEN <<p, n>> ELSE Idling)
                 ELSE Commit([BGP_connectionLost(Caught(s1), p) EXCEPT !.exc = s1.exc],
                             e, Idling)

\* BGP.dataReceived on the first connection, given the next k bytes of what
\* the peer sends.  An exception that leaves it makes the reactor drop the
\* connection (connectionLost).
StreamReceived ==
    /\ reading = Idling
    /\ nproto >= 1
    /\ proto[1].transport = "open"
    /\ \E k \in 1..(Len(Wire(sent)) - heard) :
        \E r \in {dataReceived(Cur, 1, receiveBuffer
                                       \o SubSeq(Wire(sent), heard + 1, heard + k), <<>>)} :
          /\ CommitHeap(IF Ok(r.s) THEN r.s
                        ELSE [BGP_connectionLost(Caught(r.s), 1) EXCEPT !.exc = r.s.exc],
                        Event("dataReceived", 1, proto[1].fsm,
                              IF r.log = <<>> THEN NoMsg ELSE r.log[Len(r.log)], "none"),
                        Idling)
          /\ sent' = sent
          /\ heard' = heard + k
          /\ receiveBuffer' = r.buf
          /\ dispatched' = dispatched \o r.log

\* the peer sends the messages of a session that comes up
DataReceived == DataReceivedOf(Handshake)

TimerFires(t, f) ==
    /\ reading = Idling
    /\ f <= nfsm
    /\ fsm[f].tmr[t]

\* the ConnectRetryTimer of an FSM expires
ConnectRetryTimeEvent ==
    \E f \in FSMs :
        /\ TimerFires("connectRetry", f)
        /\ Commit(FSM_connectRetryTimeEvent(TimerCancel(Cur, f, "connectRetry"), f),
                  Event("connectRetryTimeEvent", fsm[f].protocol, f, NoMsg, "none"), Idling)

\* the HoldTimer of an FSM expires
HoldTimeEvent ==
    \E f \in FSMs :
        /\ TimerFires("hold", f)
        /\ Commit(FSM_holdTimeEvent(TimerCancel(Cur, f, "hold"), f),
                  Event("holdTimeEvent", fsm[f].protocol, f, NoMsg, "none"), Idling)

\* the KeepAliveTimer of an FSM expires
KeepAliveEvent ==
    \E f \in FSMs :
        /\ TimerFires("keepAlive", f)
        /\ Commit(FSM_keepAliveEvent(TimerCancel(Cur, f, "keepAlive"), f),
                  Event("keepAliveEvent", fsm[f].protocol, f, NoMsg, "none"), Idling)

\* the DelayOpenTimer of an FSM expires
DelayOpenEvent ==
    \E f \in FSMs :
        /\ TimerFires("delayOpen", f)
        /\ Commit(FSM_delayOpenEvent(TimerCancel(Cur, f, "delayOpen"), f),
                  Event("delayOpenEvent", fsm[f].protocol, f, NoMsg, "none"), Idling)

\* the IdleHoldTimer of an FSM expires
IdleHoldTimeEvent ==
    \E f \in FSMs :
        /\ TimerFires("idleHold", f)
        /\ Commit(FSM_idleHoldTimeEvent(TimerCancel(Cur, f, "idleHold"), f),
                  Event("idleHoldTimeEvent", fsm[f].protocol, f, NoMsg, "none"), Idling)

Next ==
    \/ ManualStart
    \/ ManualStop
    \/ AutomaticStart
    \/ ConnectSuccess
    \/ ConnectFail
    \/ InboundConnection
    \/ ConnectionLost
    \/ DataReceived
    \/ ConnectRetryTimeEvent
    \/ HoldTimeEvent
    \/ KeepAliveEvent
    \/ IdleHoldTimeEvent

Spec == Init /\ [][Next]_vars

\* The behaviours that only make and lose connections, up to MaxAccept of
\* them: the peer stays silent and no HoldTimer has expired yet.
InitAccept == InitWith(FALSE, MaxAccept)

NextAccept ==
    \/ ManualStart
    \/ AutomaticStart
    \/ ConnectSuccess
    \/ ConnectFail
    \/ InboundConnection
    \/ ConnectionLost
    \/ ConnectRetryTimeEvent
    \/ IdleHoldTimeEvent

SpecAccept == InitAccept /\ [][NextAccept]_vars

\* The behaviours in which the OPENs of the peer announce the hold times of
\* HoldTimes: negotiateHoldTime sees 0, the values it rejects and values
\* below and at the hold time the local speaker starts with.
HoldTimes == {0, 1, 2, 90, 180}
HoldOpens == {Msg("OPEN", VERSION, PeerASN, h, i, 0, 0) : h \in HoldTimes, i \in {1}}

DataReceivedHold == DataReceivedOf(HoldOpens \cup {KeepAliveMsg})

NextHold ==
    \/ ManualStart
    \/ ManualStop
    \/ AutomaticStart
    \/ ConnectSuccess
    \/ ConnectFail
    \/ InboundConnection
    \/ ConnectionLost
    \/ DataReceivedHold
    \/ ConnectRetryTimeEvent
    \/ HoldTimeEvent
    \/ KeepAliveEvent
    \/ IdleHoldTimeEvent

SpecHold == Init /\ [][NextHold]_vars

\* The behaviours in which the peer also sends what the speaker rejects: a
\* header with a wrong marker or a wrong length, the OPENs of InvalidOpens.
RejectMsgs ==
    {m \in Handshake : m.type = "OPEN" => m.id = 1} \cup InvalidOpens
    \cup {m \in BadHeaderMsgs : m.type \in {"badmarker", "badlength"}}

DataReceivedReject == DataReceivedOf(RejectMsgs)

NextReject ==
    \/ ManualStart
    \/ ManualStop
    \/ AutomaticStart
    \/ ConnectSuccess
    \/ ConnectFail
    \/ InboundConnection
    \/ ConnectionLost
    \/ DataReceivedReject
    \/ ConnectRetryTimeEvent
    \/ HoldTimeEvent
    \/ KeepAliveEvent
    \/ IdleHoldTimeEvent

SpecReject == Init /\ [][NextReject]_vars

\* Two connections, the advertisements set at any time.
DataReceivedAdvertise == DataReceivedOf({m \in Handshake : m.type = "OPEN" => m.id = 1})

NextAdvertise ==
    \/ ManualStart
    \/ SetAdvertisements
    \/ ConnectSuccess
    \/ InboundConnection
    \/ ConnectionLost
    \/ DataReceivedAdvertise
    \/ HoldTimeEvent

SpecAdvertise == Init /\ [][NextAdvertise]_vars

\* One connection, IPv4 and IPv6 unicast: the address families are enabled
\* and the advertisements set at any time.
InitFamilies == InitAll(FALSE, 1, {<<>>}, Orders)

NextFamilies ==
    \/ ManualStart
    \/ SetEnabledAddressFamilies
    \/ SetAdvertisementsMP
    \/ ConnectSuccess
    \/ ConnectionLost
    \/ DataReceivedAdvertise
    \/ HoldTimeEvent

SpecFamilies == InitFamilies /\ [][NextFamilies]_vars
\* One connection, consumers registered at any time, the peer sends UPDATEs
\* as well.
UpdateMsgs == {m \in Handshake : m.type = "OPEN" => m.id = 1} \cup {UpdateMsg}
DataReceivedUpdate == DataReceivedOf(UpdateMsgs)

NextUpdate ==
    \/ ManualStart
    \/ ManualStop
    \/ RegisterConsumer
    \/ ConnectSuccess
    \/ InboundConnection
    \/ ConnectionLost
    \/ DataReceivedUpdate
    \/ HoldTimeEvent
    \/ KeepAliveEvent

SpecUpdate == InitWith(FALSE, 1) /\ [][NextUpdate]_vars

\* One connection that is given the peer's bytes in pieces of any size: the
\* peer sends up to MaxStream messages, the OPEN and the KEEPALIVEs of a
\* session, or a NOTIFICATION.
MaxStream == 3
StreamMsgs == {m \in Handshake : m.type = "OPEN" => m.id = 1}
              \cup {Msg("NOTIFICATION", 0, 0, 0, 0, ERR_CEASE, 0)}
Streams == UNION {[1..n -> StreamMsgs] : n \in 1..MaxStream}

InitStream == InitOf(FALSE, 1, Streams)

NextStream ==
    \/ ManualStart
    \/ ConnectSuccess
    \/ InboundConnection
    \/ ConnectionLost
    \/ StreamReceived
    \/ HoldTimeEvent
    \/ KeepAliveEvent

SpecStream == InitStream /\ [][NextStream]_vars

\* The behaviours in which every event of the FSM comes in every state it can
\* come in: the peer sends OPEN, KEEPALIVE, UPDATEs well and ill formed and
\* NOTIFICATIONs, the timers expire, the user starts and stops; DelayOpen is
\* configured or not.
EventMsgs ==
    {m \in Handshake : m.type = "OPEN" => m.id = 1}
    \cup {UpdateMsg, BadUpdateMsg} \cup NotificationMsgs

DataReceivedEvents == DataReceivedOf(EventMsgs)

InitEvents == \E d \in DelayOpenChoices : InitWith(d, MaxConn)

NextEvents ==
    \/ ManualStart
    \/ ManualStop
    \/ AutomaticStart
    \/ ConnectSuccess
    \/ ConnectFail
    \/ InboundConnection
    \/ ConnectionLost
    \/ DataReceivedEvents
    \/ ConnectRetryTimeEvent
    \/ HoldTimeEvent
    \/ KeepAliveEvent
    \/ DelayOpenEvent
    \/ IdleHoldTimeEvent

SpecEvents == InitEvents /\ [][NextEvents]_vars
\* The behaviours in which the peer sends UPDATEs at any time: two
\* connections, DelayOpen on or off, a peer whose OPEN announces the hold
\* time 0 or the default, consumers registered with the peering.
ReceiveMsgs ==
    {Msg("OPEN", VERSION, PeerASN, h, 1, 0, 0) : h \in {0, DefaultHoldTime}}
    \cup {KeepAliveMsg, UpdateMsg}

DataReceivedReceive == DataReceivedOf(ReceiveMsgs)

NextReceive ==
    \/ ManualStart
    \/ RegisterConsumer
    \/ ConnectSuccess
    \/ InboundConnection
    \/ ConnectionLost
    \/ DataReceivedReceive
    \/ HoldTimeEvent
    \/ KeepAliveEvent
    \/ DelayOpenEvent

SpecReceive == InitEvents /\ [][NextReceive]_vars
\* The behaviours in which the stops and starts of the user are recorded.
\* The peer does not connect: every connection is one the peering made.
InitStop == InitPeering(FALSE, MaxConn, {<<>>}, {<<INET, INET6>>}, "started")

NextStop ==
    \/ ManualStart
    \/ ManualStop
    \/ AutomaticStart
    \/ ConnectSuccess
    \/ ConnectFail
    \/ ConnectionLost
    \/ DataReceived
    \/ ConnectRetryTimeEvent
    \/ HoldTimeEvent
    \/ KeepAliveEvent
    \/ IdleHoldTimeEvent

SpecStop == InitStop /\ [][NextStop]_vars

\* The behaviours in which what the reactor has scheduled does happen: a
\* timer that is running expires (callLater), an outbound connection attempt
\* is answered (connectTCP calls buildProtocol or clientConnectionFailed), and
\* the loop of dataReceived goes on with the chunk it holds, a transport
\* that loseConnection was called on is lost.  The user and the peer are free
\* to do nothing: the peer opens no connection of its own, and sends valid
\* OPENs, KEEPALIVEs, and an OPEN of version 3.
RestartMsgs ==
    {m \in Handshake : m.type = "OPEN" => m.id = 1}
    \cup {m \in InvalidOpens : m.version # VERSION}

DataReceivedRestart == DataReceivedOf(RestartMsgs)

ConnectAnswered == ConnectSuccess \/ ConnectFail

LeftoverParsed == reading # Idling /\ DataReceivedRestart

CloseCompleted ==
    /\ ConnectionLost
    /\ ev'.p # 0 /\ proto[ev'.p].transport = "closing"

NextRestart ==
    \/ ManualStart
    \/ ConnectSuccess
    \/ ConnectFail
    \/ ConnectionLost
    \/ DataReceivedRestart
    \/ ConnectRetryTimeEvent
    \/ HoldTimeEvent
    \/ KeepAliveEvent
    \/ IdleHoldTimeEvent

Scheduled ==
    /\ WF_vars(ConnectRetryTimeEvent)
    /\ WF_vars(HoldTimeEvent)
    /\ WF_vars(KeepAliveEvent)
    /\ WF_vars(IdleHoldTimeEvent)
    /\ WF_vars(ConnectAnswered)
    /\ WF_vars(LeftoverParsed)
    /\ WF_vars(CloseCompleted)

SpecRestart == Init /\ [][NextRestart]_vars /\ Scheduled
\* UPDATEs are built call by call, and packed by _sendInetUnicastUpdates
NextPack ==
    \/ NewUpdateMessage
    \/ AddSomeWithdrawals
    \/ AddAttributes
    \/ ClearAttributes
    \/ AddSomeNLRI
    \/ SendInetUnicastUpdates

SpecPack == InitWith(FALSE, 1) /\ [][NextPack]_vars
\* ------------------------------------------------------------- properties
\* the connections of the peering
Connections == inConnections \o outConnections
StateOf(p) == fsm[proto[p].fsm].state
ConnSet == {Connections[i] : i \in 1..Len(Connections)}
Called(what) == SelectSeq(out, LAMBDA o : o.what = what)
Wrote(o) == InSeq(out, o)
Cease(p) == Out("NOTIFICATION", p, ERR_CEASE, 0)
\* the last callback was the message of type t received on protocol p
Received(p, t) == ev.name = "dataReceived" /\ ev.p = p /\ ev.m.type = t
\* the last callback dumped the connection p: Cease written on it, closed,
\* its FSM gone to Idle, the peering no longer holding it
Dumped(p) ==
    /\ Wrote(Cease(p)) /\ Wrote(Out("close", p, 0, 0))
    /\ proto[p].transport = "closing"
    /\ ~InSeq(Connections, p)
    /\ proto[p].fsm # 0 => StateOf(p) = ST_IDLE
\* the last callback left the connection q to go on: it is open, the peering
\* holds it, its FSM is in OpenConfirm
GoesOn(q) ==
    /\ proto[q].transport = "open"
    /\ InSeq(Connections, q)
    /\ StateOf(q) = ST_OPENCONFIRM
\* the last callback was an OPEN on the connection p, then in OpenSent, that
\* ran the tie-break of collisionDetect: the OPEN was valid and named the peer
\* the peering knows, another connection was in OpenConfirm, none Established
TieBreakRuns ==
    /\ Received(ev.p, "OPEN")
    /\ ev.from = ST_OPENSENT
    /\ Wrote(Out("tieBreak", ev.p, 0, 0))
\* the list the tie-break dumps, as it was before
DumpedList(m) ==
    IF bgpId < m.id THEN {outConnections[i] : i \in 1..Len(outConnections)}
    ELSE {inConnections[i] : i \in 1..Len(inConnections)}

\* C1: from Idle, manualStart, the outbound connection made, a valid OPEN (hold
\* time 180) and a KEEPALIVE take the FSM of the connection through Connect,
\* OpenSent and OpenConfirm to Established, and sessionEstablished is called
\* exactly once, by the KEEPALIVE.
C1_StartupReachesEstablished ==
    /\ replay = SubSeq(Script, 1, 1) => fsm[1].state = ST_CONNECT
    /\ replay = SubSeq(Script, 1, 2) =>
          /\ proto[1].fsm = 1 /\ StateOf(1) = ST_OPENSENT
    /\ replay = SubSeq(Script, 1, 3) => StateOf(1) = ST_OPENCONFIRM
    /\ replay = Script =>
          /\ StateOf(1) = ST_ESTABLISHED
          /\ Called("sessionEstablished") = <<Out("sessionEstablished", 1, 0, 0)>>
    /\ (replay # Diverged /\ replay # Script) => Called("sessionEstablished") = <<>>

C1_Witness ==
    /\ replay = Script
    /\ ev.m = KeepAliveMsg /\ ev.from = ST_OPENCONFIRM
    /\ StateOf(1) = ST_ESTABLISHED

\* C2: at most one connection of the peering has its FSM in Established.
C2_AtMostOneEstablished ==
    Cardinality({i \in 1..Len(Connections) : StateOf(Connections[i]) = ST_ESTABLISHED}) <= 1

C2_Witness ==
    /\ nproto = 2
    /\ \E i \in 1..Len(Connections) : StateOf(Connections[i]) = ST_ESTABLISHED

\* C3: the connections of the peering never share an FSM object.
C3_OwnFSM ==
    \A p, q \in ConnSet : p # q => proto[p].fsm # proto[q].fsm

\* C4: an OPEN received on a connection while the peering has another
\* connection as its established one dumps the connection of the OPEN (Cease
\* written on it, its FSM Idle), collisionDetect returns True, and the
\* established connection is still Established.
C4_OpenWhileEstablished ==
    [][\A p \in ConnSet :
         (/\ estabProtocol # 0
          /\ estabProtocol \in ConnSet
          /\ p # estabProtocol
          /\ Received(p, "OPEN")')
         => /\ Wrote(Cease(p))'
            /\ ev'.fsm.state = ST_IDLE
            /\ Wrote(Out("collisionDetect", p, 1, 0))'
            /\ estabProtocol' = estabProtocol
            /\ fsm'[proto'[estabProtocol].fsm].state = ST_ESTABLISHED]_vars

\* C5: in the tie-break between an outbound and an inbound connection (an OPEN
\* arrives on one of them, in OpenSent, while the other is in OpenConfirm and
\* none is Established), the local identifier below the peer's has the outbound
\* connection dumped with Cease and the inbound connection going on; the local
\* identifier above it has the inbound connection dumped and the outbound one
\* going on.
C5_TieBreak ==
    [][\A i, o \in Protos :
         (/\ inConnections = <<i>> /\ outConnections = <<o>>
          /\ TieBreakRuns')
         => IF bgpId < ev'.m.id
            THEN Dumped(o)' /\ GoesOn(i)'
            ELSE Dumped(i)' /\ GoesOn(o)']_vars

C5_Witness ==
    /\ TieBreakRuns
    /\ bgpId > ev.m.id
    /\ inConnections = <<>> /\ Len(outConnections) = 1
    /\ GoesOn(outConnections[1])
    /\ \E i \in Protos : proto[i].port # PORT /\ Dumped(i)

\* C6 as the claim has it: with the local identifier below the peer's, the
\* tie-break dumps no connection of outConnections.
C6_SmallerKeepsOutbound ==
    [][\A i, o \in Protos :
         (/\ inConnections = <<i>> /\ outConnections = <<o>>
          /\ proto[i].fsm # proto[o].fsm
          /\ TieBreakRuns'
          /\ bgpId < ev'.m.id)
         => ~Dumped(o)']_vars

\* C6, amended: between two connections with an FSM each, the side with the
\* larger identifier keeps its outbound connection: with the local identifier
\* below the peer's the tie-break dumps the connection of outConnections and
\* leaves the one of inConnections; with the local identifier above the peer's
\* it leaves the connection of outConnections.
C6_LargerKeepsOutbound ==
    [][\A i, o \in Protos :
         (/\ inConnections = <<i>> /\ outConnections = <<o>>
          /\ proto[i].fsm # proto[o].fsm
          /\ TieBreakRuns')
         => IF bgpId < ev'.m.id
            THEN Dumped(o)' /\ ~Dumped(i)' /\ inConnections' = <<i>>
            ELSE ~Dumped(o)' /\ outConnections' = <<o>>]_vars

C6_Witness ==
    /\ Received(ev.p, "OPEN")
    /\ bgpId < ev.m.id
    /\ Len(inConnections) = 1 /\ outConnections = <<>>
    /\ \E o \in Protos : o # ev.p /\ proto[o].port = PORT /\ Dumped(o)
    /\ ev.p = inConnections[1] /\ StateOf(ev.p) = ST_OPENCONFIRM

\* C7: when the FSM of a connection enters Established, the connection is made
\* estabProtocol and every other connection of the peering is dumped: its FSM
\* is Idle, and Cease was written on it if it was in OpenSent or OpenConfirm.
C7_EstablishedDumpsOthers ==
    [][\A p \in Protos :
         Wrote(Out("sessionEstablished", p, 0, 0))'
         => /\ estabProtocol' = p
            /\ fsm'[proto'[p].fsm].state = ST_ESTABLISHED
            /\ \A q \in ConnSet \ {p} :
                  /\ fsm'[proto[q].fsm].state = ST_IDLE
                  /\ StateOf(q) \in {ST_OPENSENT, ST_OPENCONFIRM} => Wrote(Cease(q))']_vars

\* C8: once the tie-break of collisionDetect has run, every connection that was
\* in the list it dumps is Idle and no longer in that list.
C8_DumpedListEmptied ==
    [][TieBreakRuns'
       => \A q \in DumpedList(ev'.m) :
             /\ fsm'[proto[q].fsm].state = ST_IDLE
             /\ ~InSeq(inConnections' \o outConnections', q)]_vars

\* C9: the peering has at most two connections in inConnections and
\* outConnections together.
C9_AtMostTwoConnections == Len(Connections) <= 2

C11_HoldZeroDisablesTimers ==
    /\ \A p \in ConnSet :
          (/\ fsm[proto[p].fsm].holdTime = 0
           /\ StateOf(p) \in {ST_OPENCONFIRM, ST_ESTABLISHED})
          => /\ ~fsm[proto[p].fsm].tmr.hold
             /\ ~fsm[proto[p].fsm].tmr.keepAlive
    /\ ~(/\ ev.name \in {"holdTimeEvent", "keepAliveEvent"}
         /\ ev.from \in {ST_OPENCONFIRM, ST_ESTABLISHED}
         /\ ev.fsm.holdTime = 0)

\* the last callback was an OPEN on the connection p that parseOpen accepted
\* and whose collision detection returned: negotiateHoldTime ran on it
Negotiated(p) ==
    /\ Received(p, "OPEN")
    /\ \E v \in {0, 1} : Wrote(Out("collisionDetect", p, v, 0))

\* C12: an OPEN with the hold time h, received on the connection that the FSM
\* holds as its protocol while the hold time of the FSM is l, leaves the FSM
\* with the hold time min(l, h); if that is 1 or 2, NOTIFICATION (2, 6) is
\* written on the connection and the FSM is Idle;
\* otherwise the keepalive time of the FSM is the hold time divided by 3,
\* rounded down.
C12_NegotiateHoldTime ==
    [][\A p \in Protos :
         (/\ p <= nproto /\ proto[p].fsm # 0
          /\ fsm[proto[p].fsm].protocol = p
          /\ Negotiated(p)')
         => /\ ev'.fsm.holdTime = Min(fsm[proto[p].fsm].holdTime, ev'.m.hold)
            /\ IF ev'.fsm.holdTime \in {1, 2}
               THEN /\ Wrote(Out("NOTIFICATION", p, ERR_MSG_OPEN,
                                 ERR_MSG_OPEN_UNACCPT_HOLD_TIME))'
                    /\ ev'.fsm.state = ST_IDLE
               ELSE ev'.fsm.keepAliveTime = ev'.fsm.holdTime \div 3]_vars

C12_Witness ==
    /\ Negotiated(ev.p)
    /\ ev.from = ST_OPENSENT
    /\ ev.m.hold = 90
    /\ ev.fsm.holdTime = 90 /\ ev.fsm.keepAliveTime = 30
    /\ ev.fsm.state = ST_OPENCONFIRM

\* C13: manualStop, for every connection of the peering whose FSM is not Idle,
\* writes NOTIFICATION (Cease, 0) on it, closes it and leaves its FSM in Idle
\* with the ConnectRetry counter 0 and none of its five timers active; a
\* connection whose FSM is Idle is left as it is, and so is its FSM.
C13_ManualStop ==
    [][ev'.name = "manualStop"
       => \A p \in ConnSet :
             IF StateOf(p) # ST_IDLE
             THEN /\ Wrote(Cease(p))'
                  /\ proto[p].transport = "open" => Wrote(Out("close", p, 0, 0))'
                  /\ proto'[p].transport # "open"
                  /\ fsm'[proto[p].fsm].state = ST_IDLE
                  /\ fsm'[proto[p].fsm].connectRetryCounter = 0
                  /\ fsm'[proto[p].fsm].tmr = NoTimers
             ELSE /\ proto'[p] = proto[p]
                  /\ fsm'[proto[p].fsm] = fsm[proto[p].fsm]
                  /\ \A i \in 1..Len(out') : out'[i].p # p]_vars

\* C14: a callback in which a connection is dumped by the collision tie-break,
\* or because another connection became Established, does not fire the errback
\* of the dumped connection: protocolError is not called for it.
C14_DumpIsNoError ==
    [][\A q \in Protos :
         (/\ Wrote(Cease(q))'
          /\ \/ TieBreakRuns'
             \/ \E p \in Protos \ {q} : Wrote(Out("sessionEstablished", p, 0, 0))')
         => ~Wrote(Out("protocolError", q, 0, 0))']_vars

\* the connection p is the protocol of its FSM
OwnFSM(p) == p <= nproto /\ proto[p].fsm # 0 /\ fsm[proto[p].fsm].protocol = p

\* C15: a header with a wrong marker, or with a wrong length, received on a
\* connection has NOTIFICATION (1, 1), or (1, 2), written on it, leaves its FSM
\* in Idle and fires the errback of the connection (protocolError is called
\* with the NotificationSent).
C15_HeaderError ==
    [][\A p \in Protos :
         /\ (OwnFSM(p) /\ Received(p, "badmarker")')
            => /\ Wrote(Out("NOTIFICATION", p, ERR_MSG_HDR, ERR_MSG_HDR_CONN_NOT_SYNC))'
               /\ ev'.fsm.state = ST_IDLE
               /\ Wrote(Out("protocolError", p, 0, 0))'
         /\ (OwnFSM(p) /\ Received(p, "badlength")')
            => /\ Wrote(Out("NOTIFICATION", p, ERR_MSG_HDR, ERR_MSG_HDR_BAD_MSG_LEN))'
               /\ ev'.fsm.state = ST_IDLE
               /\ Wrote(Out("protocolError", p, 0, 0))']_vars

\* the last callback was an OPEN on the connection p that fails validation
OpenRejected(p) == Received(p, "OPEN") /\ ev.m \in InvalidOpens

\* the NOTIFICATION that answers the invalid OPEN m on the connection p:
\* (2, 1) with the octet 4 as data for the version, (2, 2) for the ASN,
\* (2, 3) for the BGP identifier
OpenRejection(p, m) ==
    IF m.version # 4
    THEN OutData("NOTIFICATION", p, ERR_MSG_OPEN, ERR_MSG_OPEN_UNSUP_VERSION, <<4>>)
    ELSE IF m.asn \in {0, 65535}
    THEN Out("NOTIFICATION", p, ERR_MSG_OPEN, ERR_MSG_OPEN_BAD_PEER_AS)
    ELSE Out("NOTIFICATION", p, ERR_MSG_OPEN, ERR_MSG_OPEN_BAD_BGP_ID)

\* C16: an OPEN that fails validation (version, ASN, BGP identifier), received
\* on a connection that is the protocol of its FSM, has the NOTIFICATION
\* (2, suberror) written on the connection, with the data 0x04 for the version,
\* and leaves the FSM in Idle; and sessionEstablished is never called for a
\* connection after an invalid OPEN was received on it.
C16_InvalidOpen ==
    /\ [][\A p \in Protos, m \in InvalidOpens :
            (OwnFSM(p) /\ OpenRejected(p)' /\ ev'.m = m)
            => /\ Wrote(OpenRejection(p, m))'
               /\ ev'.fsm.state = ST_IDLE]_vars
    /\ \A p \in Protos :
          [](OpenRejected(p) => [](~Wrote(Out("sessionEstablished", p, 0, 0))))

C16_Witness ==
    /\ OpenRejected(ev.p)
    /\ ev.m.version = 3
    /\ ev.from = ST_OPENSENT
    /\ Wrote(OutData("NOTIFICATION", ev.p, ERR_MSG_OPEN, ERR_MSG_OPEN_UNSUP_VERSION, <<4>>))
    /\ ev.fsm.state = ST_IDLE

RECURSIVE Whole(_, _)
\* how many of the messages ms are complete in the first n bytes of Wire(ms)
Whole(ms, n) ==
    IF ms = <<>> \/ Len(Encode(Head(ms))) > n THEN 0
    ELSE 1 + Whole(Tail(ms), n - Len(Encode(Head(ms))))

\* C17: whatever pieces the bytes of the peer's messages came in, the messages
\* handed to the handlers so far are the messages that are complete in the
\* bytes given so far, in the order they were sent and each one once, and the
\* receive buffer holds the bytes of the incomplete message after them.
C17_ArrivalOrder ==
    /\ dispatched = SubSeq(sent, 1, Whole(sent, heard))
    /\ receiveBuffer = SubSeq(Wire(sent),
                              Len(Wire(SubSeq(sent, 1, Whole(sent, heard)))) + 1, heard)

RECURSIVE Written(_)
\* the consumers the callbacks in o wrote the UPDATE to, in the order they did
Written(o) ==
    IF o = <<>> THEN <<>>
    ELSE IF Head(o).what = "write" THEN <<Head(o).a>> \o Written(Tail(o))
    ELSE Written(Tail(o))

\* C18: a valid UPDATE received on a connection whose FSM is Established is
\* written once to every registered consumer, the consumer registered first
\* first; an UPDATE received in another state is written to none.
C18_UpdateDelivery ==
    [][(ev'.name = "dataReceived" /\ ev'.m = UpdateMsg)
       => Written(out') = IF ev'.from = ST_ESTABLISHED
                          THEN [i \in 1..Len(consumers) |-> i]
                          ELSE <<>>]_vars

\* C19: whenever the connection of the session (estabProtocol) is in
\* Established, the prefixes announced and not withdrawn again in the UPDATEs
\* written on it are exactly those of advertised[af].
C19_AdvertisedInForce ==
    \A p \in ConnSet :
        (p = estabProtocol /\ StateOf(p) = ST_ESTABLISHED)
        => announced[p] = Entry(advertised, INET)

\* no connection of the peering is in Established
NoSession == \A p \in ConnSet : StateOf(p) # ST_ESTABLISHED

\* C20: setAdvertisements called while no connection is in Established writes
\* no UPDATE; and when sessionEstablished has run for a connection, every
\* prefix of toAdvertise[af] is announced on that connection and
\* advertised[af] equals toAdvertise[af].
C20_SentOnEstablished ==
    [][/\ (NoSession /\ ev'.name = "setAdvertisements") => Called("UPDATE")' = <<>>
       /\ \A p \in Protos :
             Wrote(Out("sessionEstablished", p, 0, 0))'
             => /\ Entry(toAdvertise, INET)' \subseteq announced'[p]
                /\ Entry(advertised, INET)' = Entry(toAdvertise, INET)']_vars

\* how often the prefix x is in the blocks of the messages
Times(x, blocks) ==
    Cardinality({ij \in (1..Len(blocks)) \X (1..MaxPackPrefix) :
                    ij[2] <= Len(blocks[ij[1]]) /\ blocks[ij[1]][ij[2]] = x})

\* the last call was _sendInetUnicastUpdates without withdrawals, for a set
\* of advertisements that is not empty
Advertising ==
    /\ call.name = "_sendInetUnicastUpdates"
    /\ call.withdrawals = {}
    /\ call.prefixSet # {}

\* the UPDATEs of the last call are each at most 4096 bytes, each one with
\* NLRI has the attribute set, once, and every advertised prefix is in the
\* NLRI of the UPDATEs exactly once and no other prefix is
AllAdvertised ==
    /\ call.exc = "none"
    /\ \A i \in 1..Len(call.sent) :
          /\ MsgLen(call.sent[i]) <= MAX_LEN
          /\ call.sent[i].n # <<>> => call.sent[i].a = <<call.attributes>>
          /\ Block(call.sent[i].n) \subseteq call.prefixSet
    /\ \A x \in call.prefixSet :
          Times(x, [i \in 1..Len(call.sent) |-> call.sent[i].n]) = 1

\* the attributes and any one of the prefixes go into an empty UPDATE
OneFits ==
    \A x \in call.prefixSet :
        MsgLen(BGPUpdateMessage) + encodeAttributes(call.attributes)
            + octetLen(x) + 1 <= MAX_LEN

C22_WithdrawalsSent ==
    (call.name = "_sendInetUnicastUpdates" /\ call.withdrawals # {})
    => /\ call.exc = "none"
       /\ \A x \in call.withdrawals :
             Times(x, [i \in 1..Len(call.sent) |-> call.sent[i].w]) = 1
       /\ \A i \in 1..Len(call.sent) :
             call.sent[i].w # <<>> => (call.sent[i].a = <<>> /\ call.sent[i].n = <<>>)

\* C25: the length field in the header of an UPDATE under construction is the
\* number of its bytes, and that is at most 4096, from its construction on and
\* after every addSomeWithdrawals, addAttributes, clearAttributes and
\* addSomeNLRI.
C25_HeaderLength ==
    /\ bgpupdate.hdr = MsgLen(bgpupdate)
    /\ MsgLen(bgpupdate) <= MAX_LEN

\* the block a call of addSomeWithdrawals or addSomeNLRI writes to
BlockOf(m) == IF call.name = "addSomeWithdrawals" THEN m.w ELSE m.n

\* C26: addSomeWithdrawals(P) and addSomeNLRI(P) return the number of
\* prefixes they took out of P; the prefixes taken out are those appended to
\* the block, each once, the others are still in P, nothing else of the
\* message changed, and the message is at most 4096 bytes.
C26_AddSomePrefixes ==
    call.name \in {"addSomeWithdrawals", "addSomeNLRI"}
    => /\ remaining \subseteq call.prefixSet
       /\ call.ret = Cardinality(call.prefixSet \ remaining)
       /\ Len(BlockOf(bgpupdate)) = Len(BlockOf(call.before)) + call.ret
       /\ SubSeq(BlockOf(bgpupdate), 1, Len(BlockOf(call.before))) = BlockOf(call.before)
       /\ Block(SubSeq(BlockOf(bgpupdate), Len(BlockOf(call.before)) + 1,
                       Len(BlockOf(bgpupdate)))) = call.prefixSet \ remaining
       /\ bgpupdate.a = call.before.a
       /\ (call.name = "addSomeWithdrawals" => bgpupdate.n = call.before.n)
       /\ (call.name = "addSomeNLRI" => bgpupdate.w = call.before.w)
       /\ MsgLen(bgpupdate) <= MAX_LEN

\* some prefixes went into the message, and one that did not fit is still in P
C26_Witness ==
    /\ call.name \in {"addSomeWithdrawals", "addSomeNLRI"}
    /\ call.ret >= 1
    /\ remaining # {}

\* the session is up: estabProtocol is a connection in Established, the FSM
\* its own and the one the peering has
SessionUp ==
    /\ estabProtocol # 0
    /\ OwnFSM(estabProtocol)
    /\ pfsm = proto[estabProtocol].fsm
    /\ StateOf(estabProtocol) = ST_ESTABLISHED

\* C23: with the session Established and IPv6 unicast enabled, a call of
\* setAdvertisements that leaves out an IPv6 prefix advertised before returns
\* without an exception and writes an UPDATE with the prefix and its address
\* family in MP-Unreach-NLRI and nothing in the IPv4 withdrawn routes and
\* NLRI.
C23_MPWithdrawal ==
    [][\A x \in Prefixes6 :
          (/\ SessionUp
           /\ INET6 \in addressFamilies
           /\ x \in Entry(advertised, INET6)
           /\ x \in announced[estabProtocol]
           /\ ev'.name = "setAdvertisements"
           /\ x \notin Entry(toAdvertise, INET6)')
          => /\ ev'.exc = "none"
             /\ \E i \in 1..Len(out') :
                   /\ out'[i].what = "UPDATE"
                   /\ out'[i].p = estabProtocol
                   /\ out'[i].data[1] = {}
                   /\ out'[i].data[2] = {}
                   /\ <<INET6, x>> \in out'[i].data[3]]_vars

\* C24: whenever setAdvertisements is called, whatever the advertisements,
\* _calculateChanges returns two dicts with an entry for every address
\* family that is a key of advertised or of toAdvertise: withdrawals[af] is
\* advertised[af] minus toAdvertise[af], updates[af] is toAdvertise[af] minus
\* advertised[af] (a family that is no key of a dict has no prefix in it), so
\* that the two are disjoint and toAdvertise[af] is advertised[af] with
\* updates[af] and without withdrawals[af].
C24_Changes ==
    reading = Idling
    => \A advertisements \in SUBSET (Prefixes \cup Prefixes6) :
          LET s == Sorted(Heap, advertisements)
              c == _calculateChanges(s)
          IN  /\ c.exc = "none"
              /\ DOMAIN c.withdrawals = DOMAIN s.advertised \cup DOMAIN s.toAdvertise
              /\ DOMAIN c.updates = DOMAIN s.advertised \cup DOMAIN s.toAdvertise
              /\ \A af \in DOMAIN s.advertised \cup DOMAIN s.toAdvertise :
                    /\ c.withdrawals[af]
                           = Entry(s.advertised, af) \ Entry(s.toAdvertise, af)
                    /\ c.updates[af]
                           = Entry(s.toAdvertise, af) \ Entry(s.advertised, af)
                    /\ c.withdrawals[af] \cap c.updates[af] = {}
                    /\ Entry(s.toAdvertise, af)
                           = (Entry(s.advertised, af) \cup c.updates[af])
                             \ c.withdrawals[af]

\* C27: every _errorClose, whatever the state and the event it is called
\* in, leaves the five timers of its FSM inactive, the transport of the FSM's
\* connection closed (if it has a connection), the ConnectRetry counter one
\* higher than it found it and the state Idle.
C27_ErrorClose ==
    \A i \in 1..Len(ev.closes) :
        /\ \A t \in TimerNames : ~ev.closes[i].fsm.tmr[t]
        /\ ev.closes[i].transport \in {"closing", "lost", "none"}
        /\ ev.closes[i].fsm.connectRetryCounter = ev.closes[i].counter + 1
        /\ ev.closes[i].fsm.state = ST_IDLE

\* the timer whose expiry is the event of this name
TimerOf(name) ==
    CASE name = "connectRetryTimeEvent" -> "connectRetry"
      [] name = "holdTimeEvent" -> "hold"
      [] name = "keepAliveEvent" -> "keepAlive"
      [] name = "delayOpenEvent" -> "delayOpen"
      [] name = "idleHoldTimeEvent" -> "idleHold"

TimerEvents ==
    {"connectRetryTimeEvent", "holdTimeEvent", "keepAliveEvent", "delayOpenEvent",
     "idleHoldTimeEvent"}

\* The callback of this step was an event of an FSM (a message received on
\* its connection, or one of its timers expiring) and the handler ignored
\* it: the FSM is as the event found it (the timer that expired is
\* inactive), nothing was written, closed or called, and nothing was raised.
Ignored ==
    /\ ev'.name \in TimerEvents \cup {"dataReceived"}
    /\ ev'.f # 0
    /\ ev'.fsm = IF ev'.name \in TimerEvents
                 THEN [fsm[ev'.f] EXCEPT !.tmr[TimerOf(ev'.name)] = FALSE]
                 ELSE fsm[ev'.f]
    /\ out' = <<>>
    /\ ev'.closes = <<>>
    /\ ev'.exc = "none"

\* C28: whatever the state of the FSM and whatever the event, the handler
\* does something (it moves the FSM, or it raises an FSM error); the only
\* events an FSM ignores are a KEEPALIVE and an UPDATE received in
\* Established, which at most restart a timer.
C28_NoEventIgnored ==
    [][Ignored => /\ ev'.from = ST_ESTABLISHED
                  /\ ev'.name = "dataReceived"
                  /\ ev'.m \in {KeepAliveMsg, UpdateMsg}]_vars
\* the NOTIFICATION with error 2 (OPEN message error), suberror 1
\* (unsupported version number)
OpenVersionError == Msg("NOTIFICATION", 0, 0, 0, 0, ERR_MSG_OPEN, 1)

\* the last callback error-closed the FSM it was about
ErrorClosed == \E i \in 1..Len(ev.closes) : ev.closes[i].f = ev.f

\* C29: a NOTIFICATION (2, 1) received on a connection whose FSM is not
\* Idle closes that connection and leaves the FSM Idle; unless the FSM was in
\* OpenSent or OpenConfirm, it is an error close (_errorClose).
C29_VersionError ==
    (/\ ev.name = "dataReceived"
     /\ ev.m = OpenVersionError
     /\ ev.f # 0
     /\ ev.from # ST_IDLE)
    => /\ ev.fsm.state = ST_IDLE
       /\ proto[ev.p].transport \in {"closing", "lost"}
       /\ ev.from \notin {ST_OPENSENT, ST_OPENCONFIRM} => ErrorClosed
\* C30: a malformed UPDATE received on a connection whose FSM is in OpenSent
\* or OpenConfirm has NOTIFICATION (5, 0) written on that connection and the
\* FSM error-closed to Idle; in Established, NOTIFICATION (3, suberror) is
\* written and the FSM error-closed to Idle.
C30_UpdateError ==
    (/\ ev.name = "dataReceived"
     /\ ev.m = BadUpdateMsg
     /\ ev.f # 0
     /\ ev.from \in {ST_OPENSENT, ST_OPENCONFIRM, ST_ESTABLISHED})
    => /\ IF ev.from = ST_ESTABLISHED
          THEN Wrote(Out("NOTIFICATION", ev.p, ERR_MSG_UPDATE, ev.m.suberror))
          ELSE Wrote(Out("NOTIFICATION", ev.p, ERR_FSM, 0))
       /\ \E i \in 1..Len(ev.closes) : ev.closes[i].f = ev.f
       /\ ev.fsm.state = ST_IDLE
\* C31: a valid UPDATE received on the connection that its FSM holds as its
\* protocol: in Established the HoldTimer is restarted if the hold time is not
\* 0 and left as it was if it is 0, the UPDATE is written to every consumer of
\* the peering and the FSM stays Established; in Connect or Active the FSM is
\* error-closed to Idle; in OpenSent or OpenConfirm NOTIFICATION (5, 0) is
\* written on the connection and the FSM is Idle.
C31_UpdateReceived ==
    [][\A p \in Protos :
         (/\ p <= nproto /\ proto[p].fsm # 0
          /\ fsm[proto[p].fsm].protocol = p
          /\ ev'.name = "dataReceived" /\ ev'.p = p /\ ev'.m = UpdateMsg)
         => CASE fsm[proto[p].fsm].state = ST_ESTABLISHED ->
                    /\ ev'.fsm.state = ST_ESTABLISHED
                    /\ ev'.fsm.tmr.hold = (\/ fsm[proto[p].fsm].holdTime # 0
                                           \/ fsm[proto[p].fsm].tmr.hold)
                    /\ \A i \in 1..Len(consumers) :
                          Wrote(Out("write", 0, consumers[i], 0))'
              [] fsm[proto[p].fsm].state \in {ST_CONNECT, ST_ACTIVE} ->
                    /\ \E i \in 1..Len(ev'.closes) : ev'.closes[i].f = ev'.f
                    /\ ev'.fsm.state = ST_IDLE
              [] fsm[proto[p].fsm].state \in {ST_OPENSENT, ST_OPENCONFIRM} ->
                    /\ Wrote(Out("NOTIFICATION", p, ERR_FSM, 0))'
                    /\ ev'.fsm.state = ST_IDLE
              [] OTHER -> TRUE]_vars

\* an UPDATE received in Established, with hold time 0, handed to a consumer
C31_Witness ==
    /\ ev.name = "dataReceived" /\ ev.m = UpdateMsg
    /\ OwnFSM(ev.p)
    /\ ev.from = ST_ESTABLISHED /\ ev.fsm.state = ST_ESTABLISHED
    /\ ev.fsm.holdTime = 0
    /\ Len(consumers) = 2
    /\ Wrote(Out("write", 0, consumers[2], 0))
\* C32: the DelayOpenTimer of an FSM in Connect or in Active expires: an OPEN
\* is written on the connection of the FSM, the HoldTimer is running and the
\* FSM is in OpenSent.
C32_DelayOpenEvent ==
    (/\ ev.name = "delayOpenEvent"
     /\ ev.from \in {ST_CONNECT, ST_ACTIVE})
    => /\ \E i \in 1..Len(out) : out[i].what = "OPEN" /\ out[i].p = ev.p
       /\ ev.fsm.tmr.hold
       /\ ev.fsm.state = ST_OPENSENT
\* C33: once manualStop has returned, and until the user calls manualStart
\* or automaticStart, no callback starts a TCP connection attempt and none
\* takes a connection to Established.
C33_StaysStopped ==
    [][(stopped = "stopped" /\ ev'.name \notin {"manualStart", "automaticStart"})
       => /\ ~Wrote(Out("connectTCP", 0, 0, 0))'
          /\ \A p \in Protos : ~Wrote(Out("sessionEstablished", p, 0, 0))']_vars
\* C34: a message parsed from what the receive buffer of a connection still
\* holds after the connection was closed and its FSM went to Idle leaves the
\* peer id of the peering as it was, runs no collision detection, and writes
\* nothing on and closes none of the other connections.
C34_LeftoverHasNoEffect ==
    [][\A p \in Protos :
         (/\ reading # Idling /\ reading[1] = p
          /\ proto[p].fsm # 0
          /\ fsm[proto[p].fsm].state = ST_IDLE
          /\ ev'.name = "dataReceived" /\ ev'.p = p)
         => /\ peerId' = peerId
            /\ \A i \in 1..Len(out') :
                  /\ out'[i].what # "collisionDetect"
                  /\ out'[i].p \in {0, p}
            /\ inConnections' = inConnections
            /\ outConnections' = outConnections]_vars
\* C35: estabProtocol, when set, is a connection of inConnections or
\* outConnections whose FSM is in Established; and an UPDATE is only written
\* on a connection whose FSM is in Established as it is written.
C35_EstabProtocol ==
    /\ estabProtocol # 0
       => /\ proto[estabProtocol].fsm # 0
          /\ fsm[proto[estabProtocol].fsm].state = ST_ESTABLISHED
          /\ InSeq(inConnections \o outConnections, estabProtocol)
    /\ \A i \in 1..Len(out) : out[i].what = "UPDATE" => out[i].b = 1

\* C36: with automatic start allowed, once the first candidate connection
\* after manualStart is closed by an error (the peer's OPEN is rejected), the
\* peering eventually initiates a new outbound connection attempt: connectTCP
\* is called in a later callback.
FirstRejected ==
    /\ ev.name = "dataReceived" /\ ev.m \in InvalidOpens
    /\ ev.p = 1 /\ nproto = 1
    /\ ErrorClosed
    /\ allowAutomaticStart

C36_ReconnectsAfterError == FirstRejected ~> (Called("connectTCP") # <<>>)

\* C37: no callback fires a deferred that was fired already and not replaced
\* since: no callback ends with the AlreadyCalledError that Deferred.callback
\* and Deferred.errback raise then.
C37_DeferredFiredOnce == ev.exc # "AlreadyCalledError"

\* C38: an FSM in Idle, Connect or Active has neither its HoldTimer nor its
\* KeepAliveTimer active.
C38_TimersInactive ==
    \A f \in 1..nfsm :
        fsm[f].state \in {ST_IDLE, ST_CONNECT, ST_ACTIVE}
        => ~fsm[f].tmr.hold /\ ~fsm[f].tmr.keepAlive

\* C39: the Hold Time field of every OPEN sent is the local hold time an FSM
\* is made with, whatever earlier sessions of the peering negotiated.
C39_OpenHoldTime ==
    \A i \in 1..Len(out) : out[i].what = "OPEN" => out[i].a = DefaultHoldTime

\* C40: the assertion of BGP.keepAliveReceived never fails: no KEEPALIVE
\* dispatched on a connection ends in an AssertionError, the HoldTimer of the
\* connection's FSM being active whenever one is dispatched.
C40_KeepAliveAssertion ==
    (ev.name = "dataReceived" /\ ev.m = KeepAliveMsg) => ev.exc # "AssertionError"
====
